---------------------------- MODULE Spec2Model ----------------------------
(***************************************************************************)
(* Model of the document-processing API: the synchronous batch             *)
(* orchestrator (routers/sgd.py procesar_despacho), the asynchronous job   *)
(* (tasks/celery_tasks.py process_sgd_documents) with status polling and   *)
(* webhook notification, the listing / result cache they share, and the    *)
(* page grouper (services/document_processor.py).                          *)
(*                                                                         *)
(* Spec       one batch id, one sync request stream and one async job,     *)
(*            interleaved over the shared cache and document source.       *)
(* SpecGroup  _group_consecutive_pages run statement by statement on every *)
(*            classification sequence up to MaxPages pages.                *)
(***************************************************************************)
EXTENDS Integers, Sequences, FiniteSets, TLC

\* Bounds of the model.
MaxDocs == 2
MaxPages == 4
MaxEntries == 2

(***************************************************************************)
(* Artifacts of a listing.  has_field: one of the accepted content fields  *)
(* ('documento', 'content', 'base64', 'data') is a key of the artifact.    *)
(* content: what that field holds.                                         *)
(*   "empty"       an empty / null value                                   *)
(*   "bad_base64"  a string that is not valid base64                       *)
(*   "corrupt_pdf" valid base64 of bytes that do not parse as a PDF        *)
(*   "pdf"         valid base64 of a well-formed PDF                       *)
(* An artifact is identified by its position in the listing (doc_name).    *)
(***************************************************************************)
ContentKinds == {"empty", "bad_base64", "corrupt_pdf", "pdf"}

Artifacts ==
    {[has_field |-> FALSE, content |-> "absent"]}
        \cup {[has_field |-> TRUE, content |-> c] : c \in ContentKinds}

Listings == UNION {[1..n -> Artifacts] : n \in 0..MaxDocs}

(***************************************************************************)
(* Outcomes of one live request to the document source, all its retries    *)
(* included: "ok", or the error get_despacho_documents raises.             *)
(*   "timeout"     requests.exceptions.Timeout         (sgd_service 103)   *)
(*   "connection"  requests.exceptions.ConnectionError (106)               *)
(*   "http404"     ValueError, despacho no encontrado  (111-112)           *)
(*   "http_error"  any other HTTPError                 (113)               *)
(*   "retry_error" RetryError, a RequestException      (114)               *)
(***************************************************************************)
FetchErrors ==
    {"timeout", "connection", "http404", "http_error", "retry_error"}
FetchOutcomes == {"ok"} \cup FetchErrors

VARIABLES
    \* document source and cache store
    source,          \* the listing the document source holds for the batch
    listing_cache,   \* cache:despacho:<id>  : <<>> or <<listing>>
    result_cache,    \* cache:result:<id>    : <<>> or <<result>>
    \* procesar_despacho (sync request)
    s_pc, s_use_cache, s_force, s_docs, s_from_cache, s_fetch,
    s_i, s_ok, s_fail, s_resp,
    s_wrote,         \* history: this run called set_processing_result
    s_consulted,     \* history: this run called get_processing_result
    s_fetched,       \* history: this run made a live request
    s_down,          \* history: the cache calls of this run that failed
    \* process_sgd_documents (async job) and its Celery record
    j_pc, j_webhook, j_kwargs, j_state, j_meta, j_docs, j_from_cache,
    j_fetch, j_i, j_ok, j_fail, j_result, j_retval, j_done,
    j_wrote,         \* history: the job called set_processing_result
    j_fetched,       \* history: the job made a live request
    j_down,          \* history: the cache calls of the job that failed
    sink,            \* notification attempts, in order
    last_poll,       \* the latest TaskStatusResponse, <<>> before any poll
    \* _group_consecutive_pages
    g_pc, g_pages, g_cls, g_i, current_type, current_pages, grouped,
    \* CacheService against the Redis store, one call at a time
    store,           \* key -> <<>> or <<[data, ttl, age]>>
    c_last,          \* the latest CacheService call and what it returned
    \* SGDService.get_despacho_documents, one HTTP attempt at a time
    f_pc, f_use_cache, f_attempts, f_last, f_ret, f_wrote,
    \* DocumentProcessor.process_document, one capability call at a time
    p_pc,            \* the statement process_document is at
    p_pdf,           \* the artifact: [valid, n], n its page count
    p_pages,         \* what separate_pages returned
    p_cls,           \* classifications
    p_paths,         \* history: per page, how its type was resolved
    p_last,          \* history: the latest answer of a capability
    p_k,             \* the 0-based index of the extraction loop
    p_ext,           \* extractions
    p_models,        \* history: the model name of each extraction call
    p_calls,         \* history: calls made, per capability
    p_ret,           \* the ProcessedDocument returned
    \* SGDService.decode_document, statement by statement
    d_pc, d_content, d_steps, d_ret,
    \* a second delivery of the job's task message
    parked           \* the execution of the job that is not taking steps

envVars == <<source, listing_cache, result_cache>>
syncVars == <<s_pc, s_use_cache, s_force, s_docs, s_from_cache,
              s_fetch, s_i, s_ok, s_fail, s_resp, s_wrote, s_consulted,
              s_fetched, s_down>>
jobVars == <<j_pc, j_webhook, j_kwargs, j_state, j_meta, j_docs,
             j_from_cache, j_fetch, j_i, j_ok, j_fail, j_result, j_retval,
             j_done, j_wrote, j_fetched, j_down>>
pollVars == <<sink, last_poll>>
groupVars == <<g_pc, g_pages, g_cls, g_i, current_type, current_pages,
               grouped>>
cacheVars == <<store, c_last>>
fetchVars == <<f_pc, f_use_cache, f_attempts, f_last, f_ret, f_wrote>>
docVars == <<p_pc, p_pdf, p_pages, p_cls, p_paths, p_last, p_k, p_ext, p_models,
             p_calls, p_ret>>
decodeVars == <<d_pc, d_content, d_steps, d_ret>>
pipeVars == <<docVars, decodeVars>>
dupVars == <<parked>>
restVars == <<groupVars, cacheVars, fetchVars, pipeVars, dupVars>>
vars == <<envVars, syncVars, jobVars, pollVars, restVars>>

-----------------------------------------------------------------------------
(***************************************************************************)
(* SGDService.decode_document (sgd_service.py 135-169).  Returns bytes, or *)
(* raises ValueError.  Empty content returns b"" (138-140); invalid        *)
(* base64 raises (152-156); bytes that do not start with %PDF are returned *)
(* with a warning only (159-163).                                          *)
(***************************************************************************)
decode_document(content) ==
    CASE content = "empty" -> [raised |-> FALSE, bytes |-> ""]
      [] content = "bad_base64" -> [raised |-> TRUE, bytes |-> ""]
      [] content = "corrupt_pdf" -> [raised |-> FALSE, bytes |-> "corrupt"]
      [] OTHER -> [raised |-> FALSE, bytes |-> "pdf"]

(***************************************************************************)
(* DocumentProcessor.clasificar_y_procesar: the per-artifact pipeline the  *)
(* batch loops call.  It raises when the bytes cannot be segmented and     *)
(* returns a ProcessedDocument otherwise.  TRUE: it raises.                *)
(***************************************************************************)
clasificar_y_procesar_raises(pdf_bytes) == pdf_bytes # "pdf"

\* The content-field scan (sgd.py 224-228, celery_tasks.py 136-140).
content_field(doc) == IF doc.has_field THEN "documento" ELSE "None"

\* Appending to processed_documents / failed_documents.
Recorded(ok, fail) == [ok |-> ok, fail |-> fail, escaped |-> FALSE]
Failed(ok, fail, i, t) ==
    Recorded(ok, Append(fail, [document_id |-> i, error_type |-> t]))
\* Mutant of Succeeded: the document is put at the head of the list.
Succeeded_at_head(ok, fail, i) == Recorded(<<i>> \o ok, fail)
Succeeded(ok, fail, i) == Recorded(Append(ok, i), fail)
\* An exception that leaves the loop body: the lists stay as they are.
Escaped(ok, fail) == [ok |-> ok, fail |-> fail, escaped |-> TRUE]

\* Mutant of procesar_documento: the decode call sits outside the try, so
\* its ValueError leaves the loop.
procesar_documento_decode_escapes(doc, i, ok, fail) ==
    IF content_field(doc) = "None"
    THEN Failed(ok, fail, i, "MISSING_CONTENT")
    ELSE LET d == decode_document(doc.content) IN
         IF d.raised THEN Escaped(ok, fail)
         ELSE IF d.bytes = "" THEN Failed(ok, fail, i, "DECODE_ERROR")
         ELSE IF clasificar_y_procesar_raises(d.bytes)
              THEN Failed(ok, fail, i, "PROCESSING_ERROR")
              ELSE Succeeded(ok, fail, i)

(***************************************************************************)
(* One iteration of the sync loop, sgd.py 219-261, on artifact i with the  *)
(* lists so far: the lists after it.  Any exception inside the try         *)
(* (decode_document or the pipeline) is caught at 254 and recorded as      *)
(* PROCESSING_ERROR; nothing escapes the iteration.                        *)
(***************************************************************************)
procesar_documento(doc, i, ok, fail) ==
    IF content_field(doc) = "None"
    THEN Failed(ok, fail, i, "MISSING_CONTENT")
    ELSE LET d == decode_document(doc.content) IN
         IF d.raised THEN Failed(ok, fail, i, "PROCESSING_ERROR")
         ELSE IF d.bytes = "" THEN Failed(ok, fail, i, "DECODE_ERROR")
         ELSE IF clasificar_y_procesar_raises(d.bytes)
              THEN Failed(ok, fail, i, "PROCESSING_ERROR")
              ELSE Succeeded(ok, fail, i)

\* Mutant of process_document_task: empty bytes are recorded like an
\* exception of the pipeline.
process_document_task_one_kind(doc, i, ok, fail) ==
    IF content_field(doc) = "None"
    THEN Failed(ok, fail, i, "MISSING_CONTENT")
    ELSE LET d == decode_document(doc.content) IN
         IF d.raised \/ d.bytes = "" \/ clasificar_y_procesar_raises(d.bytes)
         THEN Failed(ok, fail, i, "PROCESSING_ERROR")
         ELSE Succeeded(ok, fail, i)

(***************************************************************************)
(* One iteration of the async loop after the progress update,              *)
(* celery_tasks.py 133-172; the except at 166 records PROCESSING_ERROR.    *)
(***************************************************************************)
process_document_task(doc, i, ok, fail) ==
    IF content_field(doc) = "None"
    THEN Failed(ok, fail, i, "MISSING_CONTENT")
    ELSE LET d == decode_document(doc.content) IN
         IF d.raised THEN Failed(ok, fail, i, "PROCESSING_ERROR")
         ELSE IF d.bytes = "" THEN Failed(ok, fail, i, "DECODE_ERROR")
         ELSE IF clasificar_y_procesar_raises(d.bytes)
              THEN Failed(ok, fail, i, "PROCESSING_ERROR")
              ELSE Succeeded(ok, fail, i)


\* Mutant of SyncStatus: the all-failed case is reported as partial.
SyncStatus_no_failed(ok, fail) ==
    IF Len(fail) = 0 THEN "success" ELSE "partial"

\* sgd.py 265-271
SyncStatus(ok, fail) ==
    IF Len(fail) = 0 THEN "success"
    ELSE IF Len(ok) = 0 THEN "failed"
    ELSE "partial"

\* celery_tasks.py 176-182
AsyncStatus(ok, fail) ==
    IF Len(fail) = 0 THEN "success"
    ELSE IF Len(ok) = 0 THEN "failed"
    ELSE "partial"

NoResp == [kind |-> "none"]
HttpError(code) == [kind |-> "http_error", code |-> code]

\* ProcessingMetadata + ProcessingResult, sgd.py 273-287
SyncResult(docs, ok, fail, from_cache) ==
    [kind |-> "batch",
     exitosos |-> ok,
     fallidos |-> fail,
     metadata |-> [total_documentos |-> Len(docs),
                   procesados |-> Len(ok),
                   fallidos |-> Len(fail),
                   cached |-> from_cache],
     status |-> SyncStatus(ok, fail)]

\* The result dict, celery_tasks.py 184-197
AsyncResult(docs, ok, fail, from_cache) ==
    [kind |-> "batch",
     despacho_id |-> "despacho_id",
     exitosos |-> ok,
     fallidos |-> fail,
     metadata |-> [total_documentos |-> Len(docs),
                   procesados |-> Len(ok),
                   fallidos |-> Len(fail),
                   cached |-> from_cache],
     status |-> AsyncStatus(ok, fail)]

(***************************************************************************)
(* ProcessingResult built from the cached dict, sgd.py 208 with models.py  *)
(* 72-77: the model keeps its own fields and drops every other key.        *)
(***************************************************************************)
ProcessingResult(d) ==
    [kind |-> d.kind, exitosos |-> d.exitosos, fallidos |-> d.fallidos,
     metadata |-> d.metadata, status |-> d.status]

\* The dict returned for an empty listing, celery_tasks.py 108-113
EmptyListingResult ==
    [kind |-> "empty", status |-> "failed",
     error |-> "No se encontraron documentos"]

ExceptionResult(e) == [kind |-> "exception", error |-> e]

-----------------------------------------------------------------------------
\* CacheService (cache_service.py) and the Redis entry under one key

\* cache_service.py 15 and 81: lifetimes in seconds
default_ttl == 300
result_ttl == 3600

(***************************************************************************)
(* json.dumps(value, default=str) and json.loads.  A leaf that JSON has no *)
(* type for (a date, a currency value of the extraction capability) is     *)
(* written as the string str() gives; every other value is written as      *)
(* itself.  A leaf is [type, repr]; the leaves of a value sit in its       *)
(* `extracted` field.                                                      *)
(***************************************************************************)
JsonTypes == {"str", "number"}
default_str(x) == [type |-> "str", repr |-> x.repr]
json_leaf(x) == IF x.type \in JsonTypes THEN x ELSE default_str(x)
json_dumps(v) ==
    [text |-> IF "extracted" \in DOMAIN v
              THEN [v EXCEPT !.extracted = [k \in DOMAIN @ |-> json_leaf(@[k])]]
              ELSE v]
json_loads(s) == s.text

(***************************************************************************)
(* redis_client.setex(key, ttl, data): the entry under the key.  age is    *)
(* how much of the lifetime is left: "live" half a second or more,         *)
(* "ending" less than half a second.  An expired entry is gone (<<>>).     *)
(***************************************************************************)
Ages == {"live", "ending"}
setex(ttl, data) == <<[data |-> data, ttl |-> ttl, age |-> "live"]>>

(***************************************************************************)
(* The CacheService methods on the entry under their key.  up: the store   *)
(* answers; when it does not, redis raises inside the method's try and the *)
(* except logs and returns (35-37, 58-59, 77-79, 96-97).  A get returns    *)
(* <<>> for None and <<v>> for a value.                                    *)
(***************************************************************************)
\* cache_service.py 21-37
CacheService_get_despacho_documents(up, entry) ==
    [raised |-> FALSE,
     value |-> IF up /\ entry # <<>>
               THEN <<json_loads(entry[1].data).documents>>
               ELSE <<>>]

\* cache_service.py 39-59 (called without ttl: default_ttl)
CacheService_set_despacho_documents(up, entry, documents) ==
    [raised |-> FALSE,
     entry |-> IF up
               THEN setex(default_ttl,
                          json_dumps([documents |-> documents,
                                      ttl |-> default_ttl]))
               ELSE entry]

\* Mutant of get_processing_result: the redis error is not caught.
get_processing_result_raises(up, entry) ==
    [raised |-> ~up,
     value |-> IF up /\ entry # <<>>
               THEN <<json_loads(entry[1].data)>> ELSE <<>>]

\* cache_service.py 61-79
get_processing_result(up, entry) ==
    [raised |-> FALSE,
     value |-> IF up /\ entry # <<>>
               THEN <<json_loads(entry[1].data)>> ELSE <<>>]

\* cache_service.py 81-97 (called without ttl: 3600)
set_processing_result(up, entry, result) ==
    [raised |-> FALSE,
     entry |-> IF up THEN setex(result_ttl, json_dumps(result)) ELSE entry]

(***************************************************************************)
(* redis_client.ttl(key), cache_service.py 120: the replies Redis can      *)
(* give.  -2 for a key that does not exist; otherwise the time left        *)
(* rounded to the nearest second, (ms + 500) / 1000: from 1 to ttl (the    *)
(* least and the greatest are kept) with half a second or more left, and 0 *)
(* in the last half second.                                                *)
(***************************************************************************)
redis_ttl(entry) ==
    IF entry = <<>> THEN {-2}
    ELSE IF entry[1].age = "ending" THEN {0}
    ELSE {1, entry[1].ttl}

\* Mutant of get_ttl: the reply is returned as it is.
get_ttl_unclamped(up, reply) == IF up THEN reply ELSE 0

\* cache_service.py 116-124
get_ttl(up, reply) == IF up /\ reply > 0 THEN reply ELSE 0

(***************************************************************************)
(* Keys.  A key is the sequence of its characters; the fixed words of      *)
(* f"cache:{prefix}:{identifier}" are kept whole.                          *)
(***************************************************************************)
\* Mutant of generate_key: the namespace is left out of the key.
generate_key_no_prefix(prefix, identifier) ==
    <<"cache", ":">> \o identifier

\* cache_service.py 17-19
generate_key(prefix, identifier) ==
    <<"cache", ":", prefix, ":">> \o identifier

\* Batch ids and document ids of the cache calls.
BatchIds == {<<"4", "2">>, <<"4", "2", "0">>, <<"4", "[", "2", "]">>}
DocIds == {<<"a">>}

\* cache_service.py 24, 42, 103, 119
despacho_key(despacho_id) == generate_key("despacho", despacho_id)

\* cache_service.py 64-67, 84-87: document_id is <<>> for None
result_key(despacho_id, document_id) ==
    IF document_id # <<>>
    THEN generate_key("result", despacho_id \o <<":">> \o document_id)
    ELSE generate_key("result", despacho_id)

StoreKeys ==
    {despacho_key(b) : b \in BatchIds}
        \cup {result_key(b, d) : b \in BatchIds, d \in DocIds \cup {<<>>}}

\* Index of the first "]" of p, or Len(p) + 1 when it has none.
RECURSIVE ClassEnd(_, _)
ClassEnd(p, k) ==
    IF k > Len(p) \/ p[k] = "]" THEN k ELSE ClassEnd(p, k + 1)

(***************************************************************************)
(* The glob match of scan_iter(match=pattern), cache_service.py 108:       *)
(* Redis matches the pattern against each whole key.  * is any run of      *)
(* characters, ? any one character, [...] one character of the class, \x   *)
(* the character x, any other character itself.  (The identifiers of the   *)
(* model hold no - and no ^, so a class is a plain set.)                   *)
(***************************************************************************)
RECURSIVE stringmatch(_, _)
stringmatch(p, t) ==
    IF p = <<>> THEN t = <<>>
    ELSE IF Head(p) = "*"
    THEN \E k \in 0..Len(t) :
             stringmatch(Tail(p), SubSeq(t, k + 1, Len(t)))
    ELSE IF t = <<>> THEN FALSE
    ELSE IF Head(p) = "?"
    THEN stringmatch(Tail(p), Tail(t))
    ELSE IF Head(p) = "["
    THEN LET e == ClassEnd(p, 2) IN
         /\ \E k \in 2..(e - 1) : p[k] = Head(t)
         /\ stringmatch(SubSeq(p, e + 1, Len(p)), Tail(t))
    ELSE IF Head(p) = "\\" /\ Len(p) >= 2
    THEN p[2] = Head(t) /\ stringmatch(SubSeq(p, 3, Len(p)), Tail(t))
    ELSE Head(p) = Head(t) /\ stringmatch(Tail(p), Tail(t))

(***************************************************************************)
(* CacheService.invalidate_despacho (cache_service.py 99-114) on the store *)
(* st: the listing key is deleted, then every key that matches             *)
(* cache:result:<despacho_id>*.                                            *)
(***************************************************************************)
invalidate_despacho(up, st, despacho_id) ==
    IF ~up THEN st
    ELSE LET key == despacho_key(despacho_id)
             pattern == generate_key("result", despacho_id \o <<"*">>)
         IN  [k \in DOMAIN st |->
                 IF k = key \/ stringmatch(pattern, k) THEN <<>> ELSE st[k]]

-----------------------------------------------------------------------------
\* Mutant of populates_cache: use_cache is not looked at.
populates_cache_unasked(use_cache, documents) == documents # <<>>

\* Mutant of populates_cache: a fetched listing is never cached.
populates_cache_never(use_cache, documents) == FALSE

\* sgd_service.py 97: if use_cache and documents
populates_cache(use_cache, documents) == use_cache /\ documents # <<>>

(***************************************************************************)
(* SGDService.get_despacho_documents (sgd_service.py 49-119) against the   *)
(* cache entry `cache`, the outcome `outcome` of the live request (all its *)
(* retries included) and the listing `live` the source holds.              *)
(* fetched: a live request was made.  down: the cache calls that failed.   *)
(* got, put: the cache was read, written.                                  *)
(***************************************************************************)
get_despacho_documents(use_cache, cache, outcome, live, up_get, up_set) ==
    LET c == IF use_cache
             THEN CacheService_get_despacho_documents(up_get, cache)
             ELSE [raised |-> FALSE, value |-> <<>>]
        dget == IF use_cache /\ ~up_get THEN {"get_despacho_documents"}
                ELSE {}
        base == [raised |-> FALSE, error |-> "-", documents |-> <<>>,
                 from_cache |-> FALSE, cache |-> cache, fetched |-> TRUE,
                 down |-> dget, got |-> use_cache, put |-> FALSE]
    IN
    IF c.raised
    THEN [base EXCEPT !.raised = TRUE, !.error = "redis", !.fetched = FALSE]
    ELSE IF c.value # <<>>
    THEN [base EXCEPT !.documents = c.value[1], !.from_cache = TRUE,
                      !.fetched = FALSE]
    ELSE IF outcome # "ok"
    THEN [base EXCEPT !.raised = TRUE, !.error = outcome]
    ELSE IF live = <<>>
    THEN base
    ELSE IF populates_cache(use_cache, live)
    THEN LET w == CacheService_set_despacho_documents(up_set, cache, live) IN
         [base EXCEPT !.raised = w.raised,
                      !.error = IF w.raised THEN "redis" ELSE "-",
                      !.documents = IF w.raised THEN <<>> ELSE live,
                      !.cache = w.entry, !.put = TRUE,
                      !.down = IF up_set THEN dget
                               ELSE dget \cup {"set_despacho_documents"}]
    ELSE [base EXCEPT !.documents = live]

FetchKind(r) ==
    IF r.raised THEN "raised"
    ELSE IF r.documents = <<>> THEN "empty" ELSE "listing"

-----------------------------------------------------------------------------
\* procesar_despacho

\* Mutant of consults_result_cache: force_reprocess is ignored.
consults_result_cache_forced(use_cache, force_reprocess) == use_cache

\* sgd.py 204: if use_cache and not force_reprocess
consults_result_cache(use_cache, force_reprocess) ==
    use_cache /\ ~force_reprocess

\* Mutant of sync_persists: only a success is persisted.
sync_persists_success_only(status) == status = "success"

\* sgd.py 290: if status != ProcessingStatus.FAILED
sync_persists(status) == status # "failed"

\* Mutant of async_persists: the job persists whatever the status is.
async_persists_always(status) == TRUE

\* Mutant of async_persists: the job never persists its result.
async_persists_never(status) == FALSE

\* celery_tasks.py 200: if status != "failed"
async_persists(status) == status # "failed"

(***************************************************************************)
(* sgd.py 195-208: a request arrives; with use_cache and no force the      *)
(* result cache is consulted and a hit is returned at once, as a           *)
(* ProcessingResult built from it.  An exception goes to 297-299.          *)
(***************************************************************************)
SRequest(use_cache, force, up) ==
    /\ s_pc \in {"idle", "done"}
    /\ s_use_cache' = use_cache
    /\ s_force' = force
    /\ s_docs' = <<>>
    /\ s_from_cache' = FALSE
    /\ s_i' = 0
    /\ s_ok' = <<>>
    /\ s_fail' = <<>>
    /\ s_wrote' = FALSE
    /\ s_fetched' = FALSE
    /\ IF consults_result_cache(use_cache, force)
       THEN LET r == get_processing_result(up, result_cache) IN
            /\ s_consulted' = TRUE
            /\ s_down' = IF up THEN {} ELSE {"get_processing_result"}
            /\ IF r.raised
               THEN /\ s_resp' = HttpError(500)
                    /\ s_fetch' = "none"
                    /\ s_pc' = "done"
               ELSE IF r.value # <<>>
               THEN /\ s_resp' = ProcessingResult(r.value[1])
                    /\ s_fetch' = "hit"
                    /\ s_pc' = "done"
               ELSE /\ s_resp' = NoResp
                    /\ s_fetch' = "none"
                    /\ s_pc' = "fetch"
       ELSE /\ up
            /\ s_consulted' = FALSE
            /\ s_down' = {}
            /\ s_resp' = NoResp
            /\ s_fetch' = "none"
            /\ s_pc' = "fetch"
    /\ UNCHANGED <<envVars, jobVars, pollVars, restVars>>

\* sgd.py 210-213 (and 295-299 when the fetch raises)
SFetch(outcome, up_get, up_set) ==
    /\ s_pc = "fetch"
    /\ LET r == get_despacho_documents(s_use_cache, listing_cache, outcome,
                                       source, up_get, up_set) IN
       /\ (~r.fetched => outcome = "ok")
       /\ (~r.got => up_get)
       /\ (~r.put => up_set)
       /\ listing_cache' = r.cache
       /\ s_docs' = r.documents
       /\ s_from_cache' = r.from_cache
       /\ s_fetch' = FetchKind(r)
       /\ s_fetched' = r.fetched
       /\ s_down' = s_down \cup r.down
       /\ IF r.raised
          THEN s_resp' = HttpError(500) /\ s_pc' = "done"
          ELSE IF r.documents = <<>>
          THEN s_resp' = HttpError(404) /\ s_pc' = "done"
          ELSE s_resp' = s_resp /\ s_pc' = "loop"
    /\ UNCHANGED <<source, result_cache, s_use_cache, s_force, s_i, s_ok,
                   s_fail, s_wrote, s_consulted, jobVars, pollVars,
                   restVars>>

(***************************************************************************)
(* The for loop of sgd.py 219-261 from artifact i on: the lists when the   *)
(* loop ends, the number of artifacts attempted, and whether an exception  *)
(* left the loop.                                                          *)
(***************************************************************************)
RECURSIVE procesar_loop(_, _, _, _)
procesar_loop(docs, i, ok, fail) ==
    IF i >= Len(docs)
    THEN [ok |-> ok, fail |-> fail, escaped |-> FALSE, attempted |-> i]
    ELSE LET r == procesar_documento(docs[i + 1], i, ok, fail) IN
         IF r.escaped
         THEN [ok |-> r.ok, fail |-> r.fail, escaped |-> TRUE,
               attempted |-> i]
         ELSE procesar_loop(docs, i + 1, r.ok, r.fail)

\* sgd.py 215-261, the whole loop (297-299 if an exception left it)
SProcess ==
    /\ s_pc = "loop"
    /\ LET r == procesar_loop(s_docs, 0, <<>>, <<>>) IN
       /\ s_ok' = r.ok
       /\ s_fail' = r.fail
       /\ s_i' = r.attempted
       /\ IF r.escaped
          THEN s_resp' = HttpError(500) /\ s_pc' = "done"
          ELSE s_resp' = s_resp /\ s_pc' = "finish"
    /\ UNCHANGED <<envVars, s_use_cache, s_force, s_docs,
                   s_from_cache, s_fetch, s_wrote, s_consulted, s_fetched,
                   s_down, jobVars, pollVars, restVars>>

\* sgd.py 263-293
SFinish(up) ==
    /\ s_pc = "finish"
    /\ LET r == SyncResult(s_docs, s_ok, s_fail, s_from_cache) IN
       IF sync_persists(r.status)
       THEN LET w == set_processing_result(up, result_cache, r) IN
            /\ result_cache' = w.entry
            /\ s_wrote' = TRUE
            /\ s_down' = IF up THEN s_down
                         ELSE s_down \cup {"set_processing_result"}
            /\ s_resp' = IF w.raised THEN HttpError(500) ELSE r
       ELSE /\ up
            /\ result_cache' = result_cache
            /\ s_wrote' = s_wrote
            /\ s_down' = s_down
            /\ s_resp' = r
    /\ s_pc' = "done"
    /\ UNCHANGED <<source, listing_cache, s_use_cache, s_force,
                   s_docs, s_from_cache, s_fetch, s_i, s_ok, s_fail,
                   s_consulted, s_fetched, jobVars, pollVars, restVars>>

\* The record of a call: what was asked and what came back.
Call(op, key, value, up, raised, ret) ==
    [op |-> op, key |-> key, value |-> value, up |-> up, raised |-> raised,
     ret |-> ret]

\* The batch id of the sync request, the job and the two cache endpoints.
batch_id == <<"4", "2">>

\* The two entries of the batch as a store.
BatchStore(listing_entry, result_entry) ==
    (despacho_key(batch_id) :> listing_entry)
        @@ (result_key(batch_id, <<>>) :> result_entry)

\* sgd.py 366-383, DELETE /despacho/{despacho_id}/cache
invalidar_cache_despacho(up) ==
    /\ LET st == invalidate_despacho(up,
                     BatchStore(listing_cache, result_cache), batch_id)
       IN  /\ listing_cache' = st[despacho_key(batch_id)]
           /\ result_cache' = st[result_key(batch_id, <<>>)]
    /\ c_last' = Call("invalidate_despacho", batch_id, <<>>, up, FALSE,
                      <<>>)
    /\ UNCHANGED <<source, store, syncVars, jobVars, pollVars, groupVars,
                   fetchVars, pipeVars, dupVars>>

\* sgd.py 385-403, GET /despacho/{despacho_id}/cache/ttl
obtener_ttl_cache(up) ==
    /\ \E reply \in redis_ttl(listing_cache) :
           c_last' = Call("get_ttl", despacho_key(batch_id), <<>>, up,
                          FALSE, <<get_ttl(up, reply)>>)
    /\ UNCHANGED <<envVars, store, syncVars, jobVars, pollVars, groupVars,
                   fetchVars, pipeVars, dupVars>>

-----------------------------------------------------------------------------
\* process_sgd_documents, its Celery record, the webhook and the status poll

\* A progress value p = num / den, kept exact.
Frac(n, d) == [num |-> n, den |-> d]
FracLeq(a, b) == a.num * b.den <= b.num * a.den
FracEq(a, b) == a.num * b.den = b.num * a.den

\* Mutant of initial_update: the first update_state is left out.
initial_update_skipped == [state |-> "PENDING", progress |-> Frac(0, 1)]

\* celery_tasks.py 99: the first update_state
initial_update == [state |-> "PROCESSING", progress |-> Frac(0, 1)]

\* celery_tasks.py 122-131: the update_state of iteration i (0-based)
progress_update(i, total_docs) ==
    [state |-> "PROCESSING", progress |-> Frac((i + 1) * 100, total_docs)]

(***************************************************************************)
(* CallbackTask.send_webhook (celery_tasks.py 52-65): one POST; a rejected *)
(* or failed POST is logged at 64-65 and nothing is raised.                *)
(***************************************************************************)
Deliveries == {"delivered", "rejected"}
send_webhook(status, delivery) ==
    [attempt |-> [status |-> status, delivery |-> delivery],
     raised |-> FALSE]

\* Mutant of after_completed_webhook: a rejected delivery propagates.
after_completed_webhook_propagates(raised, delivery) ==
    IF raised \/ delivery = "rejected" THEN "except" ELSE "return"

(***************************************************************************)
(* celery_tasks.py 203-210: where control goes after the completion        *)
(* webhook: an exception from it is caught at 207, then `return result`.   *)
(***************************************************************************)
after_completed_webhook(raised, delivery) == "return"

\* Mutant of obtener_estado_tarea: a completed job reports progress 0.
obtener_estado_tarea_zero(state, meta, retval) ==
    IF state \in {"SUCCESS", "FAILURE"}
    THEN [status |-> IF state = "SUCCESS" THEN "completed" ELSE "failed",
          progress |-> Frac(0, 1), result |-> retval]
    ELSE [status |-> "processing",
          progress |-> IF meta = <<>> THEN Frac(0, 1) ELSE meta[1],
          result |-> NoResp]

(***************************************************************************)
(* routers/sgd.py 336-360: the TaskStatusResponse for a Celery record.     *)
(***************************************************************************)
obtener_estado_tarea(state, meta, retval) ==
    IF state \in {"SUCCESS", "FAILURE"}
    THEN IF state = "SUCCESS"
         THEN [status |-> "completed", progress |-> Frac(100, 1),
               result |-> retval]
         ELSE [status |-> "failed", progress |-> Frac(0, 1),
               result |-> retval]
    ELSE [status |-> "processing",
          progress |-> IF meta = <<>> THEN Frac(0, 1) ELSE meta[1],
          result |-> NoResp]

\* routers/sgd.py 312-318: the response of the submit endpoint
AsyncTaskResponse(webhook_url) ==
    [status |-> "processing", webhook_url |-> webhook_url]

(***************************************************************************)
(* routers/sgd.py 301-318: process_sgd_documents.delay(despacho_id,        *)
(* webhook_url).  Both arguments are positional, so the task's kwargs hold *)
(* no 'webhook_url'.                                                       *)
(***************************************************************************)
Submit(webhook_url) ==
    /\ j_pc = "none"
    /\ j_webhook' = webhook_url
    /\ j_kwargs' = "None"
    /\ j_state' = "PENDING"
    /\ j_pc' = "queued"
    /\ UNCHANGED <<envVars, syncVars, j_meta, j_docs, j_from_cache, j_fetch,
                   j_i, j_ok, j_fail, j_result, j_retval, j_done, j_wrote,
                   j_fetched, j_down, pollVars, restVars>>

\* celery_tasks.py 95-103
JStart ==
    /\ j_pc = "queued"
    /\ j_state' = initial_update.state
    /\ j_meta' = <<initial_update.progress>>
    /\ j_pc' = "fetch"
    /\ UNCHANGED <<envVars, syncVars, j_webhook, j_kwargs, j_docs,
                   j_from_cache, j_fetch, j_i, j_ok, j_fail, j_result,
                   j_retval, j_done, j_wrote, j_fetched, j_down, pollVars,
                   restVars>>

\* celery_tasks.py 106-118
JFetch(outcome, up_get, up_set) ==
    /\ j_pc = "fetch"
    /\ LET r == get_despacho_documents(TRUE, listing_cache, outcome,
                                       source, up_get, up_set) IN
       /\ (~r.fetched => outcome = "ok")
       /\ (~r.got => up_get)
       /\ (~r.put => up_set)
       /\ listing_cache' = r.cache
       /\ j_docs' = r.documents
       /\ j_from_cache' = r.from_cache
       /\ j_fetch' = FetchKind(r)
       /\ j_fetched' = r.fetched
       /\ j_down' = j_down \cup r.down
       /\ IF r.raised
          THEN j_result' = ExceptionResult(r.error) /\ j_pc' = "except"
          ELSE IF r.documents = <<>>
          THEN j_result' = EmptyListingResult /\ j_pc' = "return"
          ELSE j_result' = j_result /\ j_pc' = "publish"
    /\ UNCHANGED <<source, result_cache, j_wrote, syncVars, j_webhook,
                   j_kwargs, j_state, j_meta, j_i, j_ok, j_fail, j_retval,
                   j_done, pollVars, restVars>>

\* celery_tasks.py 120-131
JPublish ==
    /\ j_pc = "publish"
    /\ j_i < Len(j_docs)
    /\ LET u == progress_update(j_i, Len(j_docs)) IN
       /\ j_state' = u.state
       /\ j_meta' = <<u.progress>>
    /\ j_pc' = "process"
    /\ UNCHANGED <<envVars, syncVars, j_webhook, j_kwargs, j_docs,
                   j_from_cache, j_fetch, j_i, j_ok, j_fail, j_result,
                   j_retval, j_done, j_wrote, j_fetched, j_down, pollVars,
                   restVars>>

\* celery_tasks.py 133-172 (212-220 if an exception left the loop)
JProcess ==
    /\ j_pc = "process"
    /\ LET r == process_document_task(j_docs[j_i + 1], j_i, j_ok, j_fail) IN
       /\ j_ok' = r.ok
       /\ j_fail' = r.fail
       /\ IF r.escaped
          THEN /\ j_result' = ExceptionResult("escaped")
               /\ j_pc' = "except" /\ j_i' = j_i
          ELSE /\ j_result' = j_result
               /\ j_pc' = "publish" /\ j_i' = j_i + 1
    /\ UNCHANGED <<envVars, syncVars, j_webhook, j_kwargs, j_state, j_meta,
                   j_docs, j_from_cache, j_fetch, j_retval, j_done, j_wrote,
                   j_fetched, j_down, pollVars, restVars>>

\* celery_tasks.py 174-201 (212-229 if the cache write raises)
JFinish(up) ==
    /\ j_pc = "publish"
    /\ j_i = Len(j_docs)
    /\ LET r == AsyncResult(j_docs, j_ok, j_fail, j_from_cache) IN
       IF async_persists(r.status)
       THEN LET w == set_processing_result(up, result_cache, r) IN
            /\ result_cache' = w.entry
            /\ j_wrote' = TRUE
            /\ j_down' = IF up THEN j_down
                         ELSE j_down \cup {"set_processing_result"}
            /\ IF w.raised
               THEN j_result' = ExceptionResult("redis") /\ j_pc' = "except"
               ELSE j_result' = r /\ j_pc' = "notify"
       ELSE /\ up
            /\ result_cache' = result_cache
            /\ j_wrote' = j_wrote
            /\ j_down' = j_down
            /\ j_result' = r
            /\ j_pc' = "notify"
    /\ UNCHANGED <<source, listing_cache, syncVars, j_webhook, j_kwargs,
                   j_state, j_meta, j_docs, j_from_cache, j_fetch, j_i, j_ok,
                   j_fail, j_retval, j_done, j_fetched, pollVars, restVars>>

\* Mutant of webhook_wanted: no completion webhook is sent.
webhook_wanted_never(webhook_url) == FALSE

\* celery_tasks.py 204: if webhook_url
webhook_wanted(webhook_url) == webhook_url # "None"

\* celery_tasks.py 203-208
JNotify(delivery) ==
    /\ j_pc = "notify"
    /\ IF webhook_wanted(j_webhook)
       THEN LET w == send_webhook("completed", delivery) IN
            /\ sink' = Append(sink, w.attempt)
            /\ j_pc' = after_completed_webhook(w.raised, delivery)
       ELSE /\ delivery = "delivered"
            /\ sink' = sink
            /\ j_pc' = "return"
    /\ UNCHANGED <<envVars, syncVars, j_webhook, j_kwargs, j_state, j_meta,
                   j_docs, j_from_cache, j_fetch, j_i, j_ok, j_fail, j_result,
                   j_retval, j_done, j_wrote, j_fetched, j_down, last_poll,
                   restVars>>

(***************************************************************************)
(* The task returns (celery_tasks.py 109-113 or 210): Celery records       *)
(* SUCCESS with the return value, then calls CallbackTask.on_success       *)
(* (34-41), which reads the webhook from kwargs.                           *)
(***************************************************************************)
JReturn(delivery) ==
    /\ j_pc = "return"
    /\ j_state' = "SUCCESS"
    /\ j_retval' = j_result
    /\ j_done' = j_done + 1
    /\ IF j_kwargs # "None"
       THEN sink' = Append(sink, send_webhook("completed", delivery).attempt)
       ELSE delivery = "delivered" /\ sink' = sink
    /\ j_pc' = "done"
    /\ UNCHANGED <<envVars, syncVars, j_webhook, j_kwargs, j_meta, j_docs,
                   j_from_cache, j_fetch, j_i, j_ok, j_fail, j_result, j_wrote,
                   j_fetched, j_down, last_poll, restVars>>

\* Mutant of on_task_exception: the exception is swallowed and no outcome is
\* recorded for the task.
on_task_exception_unrecorded(e) == [state |-> "PROCESSING", retval |-> NoResp]

\* Mutant of on_task_exception: error_result is returned, not raised.
on_task_exception_returns(e) ==
    [state |-> "SUCCESS",
     retval |-> [kind |-> "empty", status |-> "failed", error |-> e.error]]

(***************************************************************************)
(* celery_tasks.py 212-229, the bare `raise` at 229: the task ends with    *)
(* the exception it caught, and Celery records FAILURE carrying it.        *)
(***************************************************************************)
on_task_exception(e) == [state |-> "FAILURE", retval |-> e]

(***************************************************************************)
(* celery_tasks.py 212-229: the error webhook, then the exception is       *)
(* re-raised: Celery records FAILURE with it and calls                     *)
(* CallbackTask.on_failure (43-50).                                        *)
(***************************************************************************)
JExcept(delivery, delivery2) ==
    /\ j_pc = "except"
    /\ j_state' = on_task_exception(j_result).state
    /\ j_retval' = on_task_exception(j_result).retval
    /\ j_done' = j_done + 1
    /\ LET first == IF j_webhook # "None"
                    THEN <<send_webhook("failed", delivery).attempt>>
                    ELSE <<>>
           second == IF j_kwargs # "None"
                     THEN <<send_webhook("failed", delivery2).attempt>>
                     ELSE <<>>
       IN  /\ (j_webhook = "None" => delivery = "delivered")
           /\ (j_kwargs = "None" => delivery2 = "delivered")
           /\ sink' = sink \o first \o second
    /\ j_pc' = "done"
    /\ UNCHANGED <<envVars, syncVars, j_webhook, j_kwargs, j_meta, j_docs,
                   j_from_cache, j_fetch, j_i, j_ok, j_fail, j_result, j_wrote,
                   j_fetched, j_down, last_poll, restVars>>

\* routers/sgd.py 324-360: a status poll of the job
Poll ==
    /\ j_state # "NONE"
    /\ last_poll' = <<obtener_estado_tarea(j_state, j_meta, j_retval)>>
    /\ UNCHANGED <<envVars, syncVars, jobVars, sink, restVars>>

-----------------------------------------------------------------------------
\* DocumentProcessor._group_consecutive_pages (document_processor.py 72-93)

DocumentType == {"invoice", "transport", "packlist"}

\* document_processor.py 82: classifications[i].document_type == current_type
same_type(t, ctype) == t = ctype

\* document_processor.py 86: grouped.append((current_type, current_pages))
close_group(g, ctype, cpages) ==
    Append(g, [document_type |-> ctype, pages |-> cpages])

\* Mutant of close_last_group: the append after the loop is left out.
close_last_group_dropped(g, ctype, cpages) == g

\* document_processor.py 91: the last group is appended after the loop
close_last_group(g, ctype, cpages) ==
    Append(g, [document_type |-> ctype, pages |-> cpages])

\* document_processor.py 74-79
GroupStart ==
    /\ g_pc = "start"
    /\ IF g_cls = <<>>
       THEN /\ g_pc' = "done"
            /\ UNCHANGED <<current_type, current_pages>>
       ELSE /\ current_type' = g_cls[1]
            /\ current_pages' = <<g_pages[1]>>
            /\ g_pc' = "loop"
    /\ grouped' = <<>>
    /\ g_i' = 1
    /\ UNCHANGED <<g_pages, g_cls, envVars, syncVars, jobVars, pollVars, cacheVars,
                   fetchVars, pipeVars, dupVars>>

\* document_processor.py 81-88, one iteration (g_i is the 0-based index)
GroupStep ==
    /\ g_pc = "loop"
    /\ g_i < Len(g_cls)
    /\ IF same_type(g_cls[g_i + 1], current_type)
       THEN /\ current_pages' = Append(current_pages, g_pages[g_i + 1])
            /\ UNCHANGED <<grouped, current_type>>
       ELSE /\ grouped' = close_group(grouped, current_type, current_pages)
            /\ current_type' = g_cls[g_i + 1]
            /\ current_pages' = <<g_pages[g_i + 1]>>
    /\ g_i' = g_i + 1
    /\ UNCHANGED <<g_pc, g_pages, g_cls, envVars, syncVars, jobVars,
                   pollVars, cacheVars, fetchVars, pipeVars, dupVars>>

\* document_processor.py 90-93
GroupEnd ==
    /\ g_pc = "loop"
    /\ g_i >= Len(g_cls)
    /\ grouped' = close_last_group(grouped, current_type, current_pages)
    /\ g_pc' = "done"
    /\ UNCHANGED <<g_pages, g_cls, g_i, current_type, current_pages, envVars,
                   syncVars, jobVars, pollVars, cacheVars, fetchVars, pipeVars, dupVars>>

-----------------------------------------------------------------------------
\* DocumentProcessor.process_document and the capabilities it calls

\* An artifact handed to process_document: a PDF of n pages, or bytes that
\* fitz cannot open.
PdfInputs ==
    {[valid |-> FALSE, n |-> 0]}
        \cup {[valid |-> TRUE, n |-> k] : k \in 0..MaxPages}

Returned(v) == [raised |-> FALSE, value |-> v]
Raised == [raised |-> TRUE, value |-> "-"]
NoAnswer == [kind |-> "none", label |-> "-"]

(***************************************************************************)
(* PDFProcessor.separate_pages (pdf_utils.py 9-25): fitz.open raises on    *)
(* bytes that are no PDF; otherwise one single-page PDF per page, in page  *)
(* order.  A page is named by its ordinal in the artifact.                 *)
(***************************************************************************)
separate_pages(pdf) ==
    IF pdf.valid THEN Returned([k \in 1..pdf.n |-> k]) ELSE Raised

\* PDFProcessor.merge_pages (pdf_utils.py 28-39) on pages separate_pages
\* wrote: the document of these pages, in the order given.
merge_pages(pages) == Returned(pages)

(***************************************************************************)
(* What the classification capability answers for one page                 *)
(* (azure_service.py 19-23): a first document with a doc_type (one of the  *)
(* three mapped labels, another label, or None), no document at all, or an *)
(* exception of begin_classify_document / poller.result.                   *)
(***************************************************************************)
ClassifyAnswers ==
    {[kind |-> "label", label |-> l] :
         l \in {"invoice", "transport", "packlist", "other", "None"}}
        \cup {[kind |-> k, label |-> "-"] : k \in {"no_documents", "exception"}}

\* azure_service.py 31-35
type_mapping ==
    [invoice |-> "invoice", transport |-> "transport", packlist |-> "packlist"]

\* Mutant of classify_document: the label is returned as the capability
\* gave it.
classify_document_unmapped(a) ==
    IF a.kind = "label" THEN Returned(a.label) ELSE Returned("invoice")

\* azure_service.py 16-43
classify_document(a) ==
    IF a.kind = "exception" THEN Returned("invoice")
    ELSE IF a.kind = "label"
    THEN Returned(IF a.label \in DOMAIN type_mapping
                  THEN type_mapping[a.label] ELSE "invoice")
    ELSE Returned("invoice")

\* How classify_document came to its type: by type_mapping (37, the label
\* is a key) or by one of the defaults (37, 39, 43).
resolved_by(a) ==
    IF a.kind = "label" /\ a.label \in DOMAIN type_mapping
    THEN "mapped" ELSE "default"

\* Mutant of page_number: the index of enumerate is used as it is.
page_number_zero_based(i) == i

\* document_processor.py 32: page_number=i + 1
page_number(i) == i + 1

\* document_processor.py 31-35; the confidence is in hundredths
ClassificationResult(i, doc_type) ==
    [page_number |-> page_number(i), document_type |-> doc_type,
     confidence |-> 95]

\* What the extraction capability answers (azure_service.py 56-69).
ExtractAnswers ==
    {[kind |-> k, label |-> "-"] :
         k \in {"fields", "no_documents", "exception"}}

\* Mutant of model_name: every type has a profile of its own.
model_name_own_profile(document_type) ==
    IF document_type = "transport" THEN "transport_01"
    ELSE IF document_type = "invoice" THEN "inovice_01"
    ELSE "packlist_01"

\* azure_service.py 49-54
model_name(document_type) ==
    IF document_type = "transport" THEN "transport_01"
    ELSE IF document_type \in {"invoice", "packlist"} THEN "inovice_01"
    ELSE "inovice_01"

\* Mutant of extract_data: the exception of the capability propagates.
extract_data_propagates(document_type, a) ==
    IF a.kind = "exception" THEN Raised
    ELSE Returned(IF a.kind = "fields" THEN {"field"} ELSE {})

\* azure_service.py 45-75; the field map is the set of its field names
extract_data(document_type, a) ==
    IF a.kind = "exception" THEN Returned({})
    ELSE Returned(IF a.kind = "fields" THEN {"field"} ELSE {})

\* document_processor.py 55-59
ExtractionResult(doc_type, extracted_data) ==
    [document_type |-> doc_type, extracted_data |-> extracted_data,
     confidence |-> 95]

\* document_processor.py 65-70 (document_id and processing_time left out)
ProcessedDocument(classifications, extractions) ==
    [classification |-> classifications, extraction |-> extractions]

Called(c) == [p_calls EXCEPT ![c] = @ + 1]

\* document_processor.py 18-27
PSeparate ==
    /\ p_pc = "separate"
    /\ LET r == separate_pages(p_pdf)
       IN  IF r.raised
           THEN /\ p_pc' = "raised"
                /\ p_pages' = p_pages
           ELSE /\ p_pc' = "classify"
                /\ p_pages' = r.value
    /\ UNCHANGED <<p_pdf, p_cls, p_paths, p_last, p_k, p_ext, p_models,
                   p_calls, p_ret, decodeVars, dupVars, envVars, syncVars, jobVars,
                   pollVars, groupVars, cacheVars, fetchVars>>

\* document_processor.py 28-36, one iteration
PClassify(a) ==
    /\ p_pc = "classify"
    /\ Len(p_cls) < Len(p_pages)
    /\ p_last' = a
    /\ p_calls' = Called("classify")
    /\ LET r == classify_document(a)
       IN  IF r.raised
           THEN /\ p_pc' = "raised"
                /\ UNCHANGED <<p_cls, p_paths>>
           ELSE /\ p_cls' = Append(p_cls,
                                   ClassificationResult(Len(p_cls), r.value))
                /\ p_paths' = Append(p_paths, resolved_by(a))
                /\ p_pc' = p_pc
    /\ UNCHANGED <<p_pdf, p_pages, p_k, p_ext, p_models, p_ret, decodeVars, dupVars,
                   envVars, syncVars, jobVars, pollVars, groupVars,
                   cacheVars, fetchVars>>

\* document_processor.py 40: the call of _group_consecutive_pages
PGroup ==
    /\ p_pc = "classify"
    /\ Len(p_cls) = Len(p_pages)
    /\ p_pc' = "group"
    /\ g_pc' = "start"
    /\ g_pages' = p_pages
    /\ g_cls' = [k \in 1..Len(p_cls) |-> p_cls[k].document_type]
    /\ UNCHANGED <<p_pdf, p_pages, p_cls, p_paths, p_last, p_k, p_ext,
                   p_models, p_calls, p_ret, g_i, current_type,
                   current_pages, grouped, decodeVars, dupVars, envVars, syncVars,
                   jobVars, pollVars, cacheVars, fetchVars>>

\* document_processor.py 46-60, one iteration
PExtract(a) ==
    /\ p_pc = "group" /\ g_pc = "done"
    /\ p_k < Len(grouped)
    /\ p_k' = p_k + 1
    /\ LET doc_type == grouped[p_k + 1].document_type
           grouped_pages == grouped[p_k + 1].pages
           m == merge_pages(grouped_pages)
           r == extract_data(doc_type, a)
       IN  IF grouped_pages = <<>>
           THEN UNCHANGED <<p_pc, p_last, p_ext, p_models, p_calls>>
           ELSE IF m.raised
           THEN /\ p_pc' = "raised"
                /\ p_calls' = Called("merge")
                /\ UNCHANGED <<p_last, p_ext, p_models>>
           ELSE /\ p_last' = a
                /\ p_models' = Append(p_models, model_name(doc_type))
                /\ p_calls' = [p_calls EXCEPT !.merge = @ + 1,
                                               !.extract = @ + 1]
                /\ IF r.raised
                   THEN /\ p_pc' = "raised"
                        /\ p_ext' = p_ext
                   ELSE /\ p_pc' = p_pc
                        /\ p_ext' = Append(p_ext,
                                           ExtractionResult(doc_type, r.value))
    /\ UNCHANGED <<p_pdf, p_pages, p_cls, p_paths, p_ret, decodeVars, dupVars,
                   envVars, syncVars, jobVars, pollVars, groupVars,
                   cacheVars, fetchVars>>

\* document_processor.py 62-70
PReturn ==
    /\ p_pc = "group" /\ g_pc = "done"
    /\ p_k >= Len(grouped)
    /\ p_ret' = ProcessedDocument(p_cls, p_ext)
    /\ p_pc' = "done"
    /\ UNCHANGED <<p_pdf, p_pages, p_cls, p_paths, p_last, p_k, p_ext,
                   p_models, p_calls, decodeVars, dupVars, envVars, syncVars, jobVars,
                   pollVars, groupVars, cacheVars, fetchVars>>

DocNext ==
    \/ PSeparate
    \/ \E a \in ClassifyAnswers : PClassify(a)
    \/ PGroup
    \/ GroupStart \/ GroupStep \/ GroupEnd
    \/ \E a \in ExtractAnswers : PExtract(a)
    \/ PReturn

-----------------------------------------------------------------------------
\* SGDService.decode_document, statement by statement

\* config.py 40 and 50-51
max_file_size_mb == 50
max_file_size_bytes == max_file_size_mb * 1024 * 1024

(***************************************************************************)
(* A base64_content string: its length in characters, whether it starts    *)
(* with the data-URI prefix, whether what follows the prefix is valid      *)
(* base64, and whether the decoded bytes start with %PDF.  The lengths are *)
(* the empty string, a short one, the two on either side of the size       *)
(* limit, and a longer one.                                                *)
(***************************************************************************)
ContentLengths == {0, 8, 69905067, 69905068, 100000000}
NoContent == [len |-> 0, prefix |-> FALSE, valid |-> FALSE, pdf |-> FALSE]
Contents ==
    {NoContent}
        \cup [len : ContentLengths \ {0}, prefix : BOOLEAN, valid : BOOLEAN,
               pdf : BOOLEAN]

\* sgd_service.py 171-177: len(base64_content) * 3 // 4
estimate_document_size(base64_content) == (base64_content.len * 3) \div 4

\* Mutant of too_large: the size is not checked.
too_large_unchecked(estimated_size) == FALSE

\* sgd_service.py 144: estimated_size > settings.max_file_size_bytes
too_large(estimated_size) == estimated_size > max_file_size_bytes

DecodeReturn(raised, error, bytes) ==
    [raised |-> raised, error |-> error, bytes |-> bytes]

\* sgd_service.py 138-140
DEmpty ==
    /\ d_pc = "start"
    /\ IF d_content.len = 0
       THEN d_ret' = DecodeReturn(FALSE, "-", "") /\ d_pc' = "done"
       ELSE d_ret' = d_ret /\ d_pc' = "size"
    /\ UNCHANGED <<d_content, d_steps, docVars, dupVars, envVars, syncVars, jobVars,
                   pollVars, groupVars, cacheVars, fetchVars>>

\* sgd_service.py 142-145 (the ValueError passes 165-166)
DSize ==
    /\ d_pc = "size"
    /\ d_steps' = Append(d_steps, "estimate_document_size")
    /\ IF too_large(estimate_document_size(d_content))
       THEN d_ret' = DecodeReturn(TRUE, "too_large", "") /\ d_pc' = "done"
       ELSE d_ret' = d_ret /\ d_pc' = "decode"
    /\ UNCHANGED <<d_content, docVars, dupVars, envVars, syncVars, jobVars, pollVars,
                   groupVars, cacheVars, fetchVars>>

\* sgd_service.py 147-156: the prefix is removed, then b64decode
DDecode ==
    /\ d_pc = "decode"
    /\ d_steps' = Append(d_steps, "b64decode")
    /\ IF d_content.valid
       THEN d_ret' = d_ret /\ d_pc' = "header"
       ELSE d_ret' = DecodeReturn(TRUE, "invalid_base64", "") /\ d_pc' = "done"
    /\ UNCHANGED <<d_content, docVars, dupVars, envVars, syncVars, jobVars, pollVars,
                   groupVars, cacheVars, fetchVars>>

\* sgd_service.py 158-163: a warning only, the bytes are returned
DHeader ==
    /\ d_pc = "header"
    /\ d_ret' = DecodeReturn(FALSE, "-",
                             IF d_content.pdf THEN "pdf" ELSE "corrupt")
    /\ d_pc' = "done"
    /\ UNCHANGED <<d_content, d_steps, docVars, dupVars, envVars, syncVars, jobVars,
                   pollVars, groupVars, cacheVars, fetchVars>>

DecodeNext == DEmpty \/ DSize \/ DDecode \/ DHeader

-----------------------------------------------------------------------------
\* SGDService.get_despacho_documents, one HTTP attempt at a time

\* config.py 24: SGD_MAX_RETRIES
sgd_max_retries == 3

\* Mutant of Retry_total: one retry more than configured.
Retry_total_one_more == sgd_max_retries + 1

\* sgd_service.py 32: Retry(total=self.max_retries, ...)
Retry_total == sgd_max_retries

\* Mutant of status_forcelist: 404 is retried like a 503.
status_forcelist_with_404 == {404, 429, 500, 502, 503, 504}

\* sgd_service.py 34
status_forcelist == {429, 500, 502, 503, 504}

(***************************************************************************)
(* What one attempt of session.get (sgd_service.py 72-76) can meet: no     *)
(* connection within the timeout, a connection error, no answer within the *)
(* timeout, or a response with a status (403 stands for the statuses that  *)
(* are neither 2xx, 404 nor in status_forcelist).                          *)
(***************************************************************************)
Attempts ==
    {[kind |-> k, status |-> 0] :
         k \in {"connect_timeout", "read_timeout", "connection"}}
        \cup {[kind |-> "response", status |-> c] :
                  c \in {200, 403, 404, 429, 500, 502, 503, 504}}

\* The adapter retries the attempt (Retry of 31-36, GET is allowed).
is_retry(a) == a.kind # "response" \/ a.status \in status_forcelist

\* Retry.is_exhausted after `failed` failed attempts: total - failed < 0
is_exhausted(failed) == Retry_total - failed < 0

(***************************************************************************)
(* The exception get_despacho_documents raises for the attempt that ended  *)
(* the request (sgd_service.py 103-119).  With the retries exhausted the   *)
(* adapter raises ConnectTimeout for a connect timeout, RetryError for a   *)
(* status of status_forcelist and ConnectionError otherwise; a status that *)
(* is not retried is raised by raise_for_status at 81.                     *)
(***************************************************************************)
fetch_error(a) ==
    IF a.kind = "connect_timeout" THEN "timeout"
    ELSE IF a.kind \in {"read_timeout", "connection"} THEN "connection"
    ELSE IF is_retry(a) THEN "retry_error"
    ELSE IF a.status = 404 THEN "http404"
    ELSE "http_error"

\* Mutant of raise_for_status: an error status is taken for a success.
raise_for_status_never(status) == FALSE

\* sgd_service.py 81: response.raise_for_status()
raise_for_status(status) == status # 200

FetchReturn(raised, error, documents, from_cache) ==
    [raised |-> raised, error |-> error, documents |-> documents,
     from_cache |-> from_cache]

\* sgd_service.py 54-64: the call, and the cache lookup
FCall(use_cache) ==
    /\ f_pc \in {"idle", "done"}
    /\ f_use_cache' = use_cache
    /\ f_attempts' = 0
    /\ f_last' = "-"
    /\ f_wrote' = FALSE
    /\ LET c == IF use_cache
                THEN CacheService_get_despacho_documents(TRUE, listing_cache)
                ELSE [raised |-> FALSE, value |-> <<>>]
       IN  IF c.value # <<>>
           THEN /\ f_ret' = FetchReturn(FALSE, "-", c.value[1], TRUE)
                /\ f_pc' = "done"
           ELSE /\ f_ret' = NoResp
                /\ f_pc' = "request"
    /\ UNCHANGED <<envVars, syncVars, jobVars, pollVars, groupVars,
                   cacheVars, pipeVars, dupVars>>

(***************************************************************************)
(* sgd_service.py 72-119: one attempt of session.get and what follows it.  *)
(* A retried failure leaves the request open until the retries are         *)
(* exhausted; a response that is not retried goes to raise_for_status and, *)
(* if it is a success, to 83-101: an empty listing is returned at 92-94,   *)
(* before the cache write of 97-98.                                        *)
(***************************************************************************)
FAttempt(a) ==
    /\ f_pc = "request"
    /\ f_attempts' = f_attempts + 1
    /\ f_last' = a
    /\ IF is_retry(a)
       THEN /\ IF is_exhausted(f_attempts + 1)
               THEN /\ f_ret' = FetchReturn(TRUE, fetch_error(a), <<>>, FALSE)
                    /\ f_pc' = "done"
               ELSE /\ f_ret' = f_ret
                    /\ f_pc' = "request"
            /\ UNCHANGED <<listing_cache, f_wrote>>
       ELSE IF raise_for_status(a.status)
       THEN /\ f_ret' = FetchReturn(TRUE, fetch_error(a), <<>>, FALSE)
            /\ f_pc' = "done"
            /\ UNCHANGED <<listing_cache, f_wrote>>
       ELSE IF source = <<>>
       THEN /\ f_ret' = FetchReturn(FALSE, "-", <<>>, FALSE)
            /\ f_pc' = "done"
            /\ UNCHANGED <<listing_cache, f_wrote>>
       ELSE /\ f_ret' = FetchReturn(FALSE, "-", source, FALSE)
            /\ f_pc' = "done"
            /\ IF populates_cache(f_use_cache, source)
               THEN /\ listing_cache' =
                           CacheService_set_despacho_documents(
                               TRUE, listing_cache, source).entry
                    /\ f_wrote' = TRUE
               ELSE UNCHANGED <<listing_cache, f_wrote>>
    /\ UNCHANGED <<source, result_cache, f_use_cache, syncVars, jobVars,
                   pollVars, groupVars, cacheVars, pipeVars, dupVars>>

FetchNext ==
    \/ \E u \in BOOLEAN : FCall(u)
    \/ \E a \in Attempts : FAttempt(a)

-----------------------------------------------------------------------------
\* CacheService called directly, one call at a time, while time passes

\* Values of the calls.  A result holds the leaves the extraction gave.
Leaves ==
    {[type |-> "str", repr |-> "2024-05-01"],
     [type |-> "date", repr |-> "2024-05-01"]}
ResultValues == {[status |-> "success", extracted |-> <<x>>] : x \in Leaves}
ListingValues == {<<>>, <<[has_field |-> TRUE, content |-> "pdf"]>>}

\* The store has room for the entry under key (at most MaxEntries entries).
HasRoom(key) ==
    Cardinality({k \in StoreKeys : store[k] # <<>>} \cup {key}) <= MaxEntries

\* cache_service.py 39-59
CSetDocs(despacho_id, documents, up) ==
    LET key == despacho_key(despacho_id)
        r == CacheService_set_despacho_documents(up, store[key], documents)
    IN  /\ HasRoom(key)
        /\ store' = [store EXCEPT ![key] = r.entry]
        /\ c_last' = Call("set_despacho_documents", key, <<documents>>, up,
                          r.raised, <<>>)
        /\ UNCHANGED <<envVars, syncVars, jobVars, pollVars, groupVars,
                       fetchVars, pipeVars, dupVars>>

\* cache_service.py 21-37
CGetDocs(despacho_id, up) ==
    LET key == despacho_key(despacho_id)
        r == CacheService_get_despacho_documents(up, store[key])
    IN  /\ c_last' = Call("get_despacho_documents", key, <<>>, up,
                          r.raised, r.value)
        /\ UNCHANGED <<store, envVars, syncVars, jobVars, pollVars,
                       groupVars, fetchVars, pipeVars, dupVars>>

\* cache_service.py 81-97
CSetResult(despacho_id, document_id, result, up) ==
    LET key == result_key(despacho_id, document_id)
        r == set_processing_result(up, store[key], result)
    IN  /\ HasRoom(key)
        /\ store' = [store EXCEPT ![key] = r.entry]
        /\ c_last' = Call("set_processing_result", key, <<result>>, up,
                          r.raised, <<>>)
        /\ UNCHANGED <<envVars, syncVars, jobVars, pollVars, groupVars,
                       fetchVars, pipeVars, dupVars>>

\* cache_service.py 61-79
CGetResult(despacho_id, document_id, up) ==
    LET key == result_key(despacho_id, document_id)
        r == get_processing_result(up, store[key])
    IN  /\ c_last' = Call("get_processing_result", key, <<>>, up,
                          r.raised, r.value)
        /\ UNCHANGED <<store, envVars, syncVars, jobVars, pollVars,
                       groupVars, fetchVars, pipeVars, dupVars>>

\* cache_service.py 99-114
CInvalidate(despacho_id, up) ==
    /\ store' = invalidate_despacho(up, store, despacho_id)
    /\ c_last' = Call("invalidate_despacho", despacho_id, <<>>, up, FALSE,
                      <<>>)
    /\ UNCHANGED <<envVars, syncVars, jobVars, pollVars, groupVars,
                   fetchVars, pipeVars, dupVars>>

\* cache_service.py 116-124
CGetTtl(despacho_id, up) ==
    LET key == despacho_key(despacho_id) IN
    /\ \E reply \in redis_ttl(store[key]) :
           c_last' = Call("get_ttl", key, <<>>, up, FALSE,
                          <<get_ttl(up, reply)>>)
    /\ UNCHANGED <<store, envVars, syncVars, jobVars, pollVars, groupVars,
                   fetchVars, pipeVars, dupVars>>

\* Time passes for the entry under key: it nears its end, then expires.
TimePasses(key) ==
    /\ store[key] # <<>>
    /\ store' = [store EXCEPT ![key] =
                     IF @[1].age = "live"
                     THEN <<[@[1] EXCEPT !.age = "ending"]>>
                     ELSE <<>>]
    /\ c_last' = Call("time", key, <<>>, TRUE, FALSE, <<>>)
    /\ UNCHANGED <<envVars, syncVars, jobVars, pollVars, groupVars,
                   fetchVars, pipeVars, dupVars>>

CacheNext ==
    \/ \E b \in BatchIds, v \in ListingValues, up \in BOOLEAN :
           CSetDocs(b, v, up)
    \/ \E b \in BatchIds, up \in BOOLEAN : CGetDocs(b, up)
    \/ \E b \in BatchIds, d \in DocIds \cup {<<>>}, v \in ResultValues,
          up \in BOOLEAN : CSetResult(b, d, v, up)
    \/ \E b \in BatchIds, d \in DocIds \cup {<<>>}, up \in BOOLEAN :
           CGetResult(b, d, up)
    \/ \E b \in BatchIds, up \in BOOLEAN : CInvalidate(b, up)
    \/ \E b \in BatchIds, up \in BOOLEAN : CGetTtl(b, up)
    \/ \E k \in StoreKeys : TimePasses(k)

-----------------------------------------------------------------------------
GroupIdle ==
    /\ g_pc = "off" /\ g_pages = <<>> /\ g_cls = <<>> /\ g_i = 0
    /\ current_type = "-" /\ current_pages = <<>> /\ grouped = <<>>

JobIdle ==
    /\ j_pc = "none" /\ j_webhook = "None" /\ j_kwargs = "None"
    /\ j_state = "NONE" /\ j_meta = <<>> /\ j_docs = <<>>
    /\ j_from_cache = FALSE /\ j_fetch = "none" /\ j_i = 0
    /\ j_ok = <<>> /\ j_fail = <<>>
    /\ j_result = NoResp /\ j_retval = NoResp /\ j_done = 0
    /\ j_wrote = FALSE /\ j_fetched = FALSE /\ j_down = {}

SyncIdle ==
    /\ s_pc = "idle" /\ s_use_cache = TRUE /\ s_force = FALSE
    /\ s_docs = <<>> /\ s_from_cache = FALSE /\ s_fetch = "none" /\ s_i = 0
    /\ s_ok = <<>> /\ s_fail = <<>> /\ s_resp = NoResp /\ s_wrote = FALSE
    /\ s_consulted = FALSE /\ s_fetched = FALSE /\ s_down = {}

CacheIdle ==
    /\ store = [k \in StoreKeys |-> <<>>]
    /\ c_last = Call("none", <<>>, <<>>, TRUE, FALSE, <<>>)

FetchIdle ==
    /\ f_pc = "off" /\ f_use_cache = TRUE /\ f_attempts = 0
    /\ f_last = "-" /\ f_ret = NoResp /\ f_wrote = FALSE

DocIdle ==
    /\ p_pc = "off" /\ p_pdf = [valid |-> TRUE, n |-> 0] /\ p_pages = <<>>
    /\ p_cls = <<>> /\ p_paths = <<>> /\ p_last = NoAnswer /\ p_k = 0
    /\ p_ext = <<>> /\ p_models = <<>>
    /\ p_calls = [classify |-> 0, merge |-> 0, extract |-> 0]
    /\ p_ret = NoResp

DecodeIdle ==
    /\ d_pc = "off" /\ d_content = NoContent /\ d_steps = <<>> /\ d_ret = NoResp

\* The task message was delivered once.
NoExecution == [pc |-> "none"]
DupIdle == parked = NoExecution

Init ==
    /\ source \in Listings
    /\ listing_cache = <<>>
    /\ result_cache = <<>>
    /\ SyncIdle
    /\ JobIdle
    /\ sink = <<>> /\ last_poll = <<>>
    /\ GroupIdle
    /\ CacheIdle
    /\ FetchIdle
    /\ DocIdle
    /\ DecodeIdle
    /\ DupIdle

SyncNext ==
    \/ \E u \in BOOLEAN, f \in BOOLEAN : SRequest(u, f, TRUE)
    \/ \E o \in FetchOutcomes : SFetch(o, TRUE, TRUE)
    \/ SProcess
    \/ SFinish(TRUE)

JobNext ==
    \/ \E w \in {"None", "url"} : Submit(w)
    \/ JStart
    \/ \E o \in FetchOutcomes : JFetch(o, TRUE, TRUE)
    \/ JPublish
    \/ JProcess
    \/ JFinish(TRUE)
    \/ \E d \in Deliveries : JNotify(d)
    \/ \E d \in Deliveries : JReturn(d)
    \/ \E d \in Deliveries, e \in Deliveries : JExcept(d, e)

\* Sync requests and the async job, interleaved over the shared cache.
Next == SyncNext \/ JobNext

Spec == Init /\ [][Next]_vars

(***************************************************************************)
(* The async job on a worker that keeps running it: the task body has no   *)
(* unbounded loop, and every external call it makes returns or fails, so a *)
(* step of the job that can be taken is taken.                             *)
(***************************************************************************)
SpecJobLive == Init /\ [][JobNext]_vars /\ WF_vars(JobNext)

\* The async job under a status poller.
PollNext == JobNext \/ Poll

SpecPoll == Init /\ [][PollNext]_vars

\* The grouper on every classification sequence of up to MaxPages pages.
GroupInit ==
    /\ source = <<>> /\ listing_cache = <<>> /\ result_cache = <<>>
    /\ SyncIdle
    /\ JobIdle
    /\ sink = <<>> /\ last_poll = <<>>
    /\ g_pc = "start"
    /\ g_cls \in UNION {[1..n -> DocumentType] : n \in 0..MaxPages}
    /\ g_pages = [k \in 1..Len(g_cls) |-> k]
    /\ g_i = 0 /\ current_type = "-" /\ current_pages = <<>>
    /\ grouped = <<>>
    /\ CacheIdle
    /\ FetchIdle
    /\ DocIdle
    /\ DecodeIdle
    /\ DupIdle

GroupNext == GroupStart \/ GroupStep \/ GroupEnd

SpecGroup == GroupInit /\ [][GroupNext]_vars

\* CacheService on its own: any sequence of calls, with time passing.
CacheInit ==
    /\ source = <<>> /\ listing_cache = <<>> /\ result_cache = <<>>
    /\ SyncIdle
    /\ JobIdle
    /\ sink = <<>> /\ last_poll = <<>>
    /\ GroupIdle
    /\ CacheIdle
    /\ FetchIdle
    /\ DocIdle
    /\ DecodeIdle
    /\ DupIdle

SpecCache == CacheInit /\ [][CacheNext]_vars

\* process_document on every artifact of up to MaxPages pages.
DocInit ==
    /\ source = <<>> /\ listing_cache = <<>> /\ result_cache = <<>>
    /\ SyncIdle
    /\ JobIdle
    /\ sink = <<>> /\ last_poll = <<>>
    /\ GroupIdle
    /\ CacheIdle
    /\ FetchIdle
    /\ p_pc = "separate" /\ p_pdf \in PdfInputs /\ p_pages = <<>>
    /\ p_cls = <<>> /\ p_paths = <<>> /\ p_last = NoAnswer /\ p_k = 0
    /\ p_ext = <<>> /\ p_models = <<>>
    /\ p_calls = [classify |-> 0, merge |-> 0, extract |-> 0]
    /\ p_ret = NoResp
    /\ DecodeIdle
    /\ DupIdle

SpecDoc == DocInit /\ [][DocNext]_vars

\* decode_document on every content string.
DecodeInit ==
    /\ source = <<>> /\ listing_cache = <<>> /\ result_cache = <<>>
    /\ SyncIdle
    /\ JobIdle
    /\ sink = <<>> /\ last_poll = <<>>
    /\ GroupIdle
    /\ CacheIdle
    /\ FetchIdle
    /\ DocIdle
    /\ d_pc = "start" /\ d_content \in Contents /\ d_steps = <<>>
    /\ d_ret = NoResp
    /\ DupIdle

SpecDecode == DecodeInit /\ [][DecodeNext]_vars

\* get_despacho_documents on its own, attempt by attempt.
FetchInit ==
    /\ source \in Listings
    /\ listing_cache = <<>> /\ result_cache = <<>>
    /\ SyncIdle
    /\ JobIdle
    /\ sink = <<>> /\ last_poll = <<>>
    /\ GroupIdle
    /\ CacheIdle
    /\ f_pc = "idle" /\ f_use_cache = TRUE /\ f_attempts = 0
    /\ f_last = "-" /\ f_ret = NoResp /\ f_wrote = FALSE
    /\ DocIdle
    /\ DecodeIdle
    /\ DupIdle

SpecFetch == FetchInit /\ [][FetchNext]_vars

(***************************************************************************)
(* The sync request and the two cache endpoints over a store that may fail *)
(* to answer any single call.                                              *)
(***************************************************************************)
StoreNext ==
    \/ \E u \in BOOLEAN, f \in BOOLEAN, up \in BOOLEAN : SRequest(u, f, up)
    \/ \E o \in FetchOutcomes, g \in BOOLEAN, p \in BOOLEAN : SFetch(o, g, p)
    \/ SProcess
    \/ \E up \in BOOLEAN : SFinish(up)
    \/ \E up \in BOOLEAN : invalidar_cache_despacho(up)
    \/ \E up \in BOOLEAN : obtener_ttl_cache(up)

SpecStore == Init /\ [][StoreNext]_vars

(***************************************************************************)
(* At-least-once dispatch.  The task message of the job is delivered a     *)
(* second time by the broker (celery_tasks.py 16-20: a Redis broker), and  *)
(* a worker runs process_sgd_documents again under the same task id.  The  *)
(* body has no check of an earlier execution (92-103), so the second       *)
(* execution starts from the top.  What belongs to one execution (its      *)
(* position and its local variables) is kept per execution; the Celery     *)
(* record of the task id, the caches and the sink are shared.              *)
(***************************************************************************)
Execution ==
    [pc |-> j_pc, docs |-> j_docs, from_cache |-> j_from_cache,
     fetch |-> j_fetch, i |-> j_i, ok |-> j_ok, fail |-> j_fail,
     result |-> j_result, wrote |-> j_wrote, fetched |-> j_fetched,
     down |-> j_down]

\* A delivered task message that no worker has started yet.
QueuedExecution ==
    [pc |-> "queued", docs |-> <<>>, from_cache |-> FALSE, fetch |-> "none",
     i |-> 0, ok |-> <<>>, fail |-> <<>>, result |-> NoResp,
     wrote |-> FALSE, fetched |-> FALSE, down |-> {}]

\* The broker delivers the task message once more.
Redeliver ==
    /\ j_pc # "none"
    /\ parked = NoExecution
    /\ parked' = QueuedExecution
    /\ UNCHANGED <<envVars, syncVars, jobVars, pollVars, groupVars,
                   cacheVars, fetchVars, pipeVars>>

\* The workers' scheduling: the other execution takes the next steps.
Switch ==
    /\ parked # NoExecution
    /\ parked' = Execution
    /\ j_pc' = parked.pc
    /\ j_docs' = parked.docs
    /\ j_from_cache' = parked.from_cache
    /\ j_fetch' = parked.fetch
    /\ j_i' = parked.i
    /\ j_ok' = parked.ok
    /\ j_fail' = parked.fail
    /\ j_result' = parked.result
    /\ j_wrote' = parked.wrote
    /\ j_fetched' = parked.fetched
    /\ j_down' = parked.down
    /\ UNCHANGED <<envVars, syncVars, j_webhook, j_kwargs, j_state, j_meta,
                   j_retval, j_done, pollVars, groupVars, cacheVars,
                   fetchVars, pipeVars>>

\* The listings of the duplicate-delivery runs: artifacts that process and
\* artifacts that fail to decode.
DupListings ==
    {l \in Listings :
        \A k \in DOMAIN l : l[k].has_field /\ l[k].content \in {"pdf", "bad_base64"}}

DupInit == Init /\ source \in DupListings

DupNext == JobNext \/ Redeliver \/ Switch

\* The async job whose task message is delivered twice.
SpecDup == DupInit /\ [][DupNext]_vars

(***************************************************************************)
(* The document source is another system: the listing it holds for the     *)
(* batch changes while the service runs (sgd_service.py 66-87 reads it     *)
(* anew on each live request).  A document is added to the listing.        *)
(***************************************************************************)
SourceChanges(listing) ==
    /\ \E a \in Artifacts : listing = Append(source, a)
    /\ source' = listing
    /\ UNCHANGED <<listing_cache, result_cache, syncVars, jobVars, pollVars,
                   restVars>>

StaleNext ==
    \/ SyncNext
    \/ \E l \in Listings : SourceChanges(l)

\* Sync requests against a document source whose listing changes.
SpecStale == Init /\ [][StaleNext]_vars

-----------------------------------------------------------------------------
\* Properties

SyncBatchDone == s_pc = "done" /\ s_fetch = "listing"
JobBatchDone == j_pc = "done" /\ j_fetch = "listing"

BatchResultInvariant(r, total) ==
    /\ Len(r.exitosos) + Len(r.fallidos) = total
    /\ r.metadata.total_documentos = total
    /\ r.status \in {"success", "failed", "partial"}
    /\ (r.status = "success") <=> (r.fallidos = <<>>)
    /\ (r.status = "failed") <=> (r.exitosos = <<>>)
    /\ (r.status = "partial") <=> (r.fallidos # <<>> /\ r.exitosos # <<>>)

(***************************************************************************)
(* C1.  Every result returned by a batch run over a non-empty listing      *)
(* (sync response, async return value) has successes + failures = number   *)
(* of artifacts, status success iff no failures, failed iff no successes,  *)
(* partial otherwise.                                                      *)
(***************************************************************************)
C1_BatchResultInvariant ==
    /\ (SyncBatchDone /\ s_resp.kind = "batch")
           => BatchResultInvariant(s_resp, Len(s_docs))
    /\ (JobBatchDone /\ j_retval.kind = "batch")
           => BatchResultInvariant(j_retval, Len(j_docs))

C1_Witness ==
    /\ SyncBatchDone /\ s_resp.kind = "batch" /\ s_resp.status = "partial"
    /\ Len(s_docs) = 2
    /\ JobBatchDone /\ j_retval.kind = "batch"
    /\ j_retval.status = "partial"

\* Pages of the groups, concatenated in group order.
RECURSIVE FlattenPages(_)
FlattenPages(g) ==
    IF g = <<>> THEN <<>> ELSE Head(g).pages \o FlattenPages(Tail(g))

(***************************************************************************)
(* C2.  When _group_consecutive_pages returns, the groups' pages           *)
(* concatenated in group order are the input pages, no two adjacent groups *)
(* have the same type, every group has a page, and every page of a group   *)
(* was classified with the group's type.                                   *)
(***************************************************************************)
C2_GroupingIsPartition ==
    g_pc = "done" =>
        /\ FlattenPages(grouped) = g_pages
        /\ \A k \in 1..(Len(grouped) - 1) :
               grouped[k].document_type # grouped[k + 1].document_type
        /\ \A k \in 1..Len(grouped) :
               /\ Len(grouped[k].pages) >= 1
               /\ \A q \in 1..Len(grouped[k].pages) :
                      g_cls[grouped[k].pages[q]] = grouped[k].document_type

C2_Witness ==
    /\ g_pc = "done"
    /\ g_cls = <<"invoice", "invoice", "transport">>
    /\ grouped = <<[document_type |-> "invoice", pages |-> <<1, 2>>],
                   [document_type |-> "transport", pages |-> <<3>>]>>

\* Artifact i of docs is in exactly one of the two lists, once.
EachExactlyOnce(docs, ok, fail) ==
    \A i \in 0..(Len(docs) - 1) :
        Cardinality({k \in 1..Len(ok) : ok[k] = i})
          + Cardinality({k \in 1..Len(fail) : fail[k].document_id = i}) = 1

(***************************************************************************)
(* C3.  A batch run over a non-empty listing is never aborted by an        *)
(* artifact: it ends with a result, every artifact was attempted, and      *)
(* each artifact is in exactly one of the success and failure lists.       *)
(***************************************************************************)
C3_FailureNeverAborts ==
    /\ SyncBatchDone =>
           /\ s_resp.kind = "batch"
           /\ s_i = Len(s_docs)
           /\ EachExactlyOnce(s_docs, s_resp.exitosos, s_resp.fallidos)
    /\ JobBatchDone =>
           /\ j_state = "SUCCESS" /\ j_retval.kind = "batch"
           /\ j_i = Len(j_docs)
           /\ EachExactlyOnce(j_docs, j_retval.exitosos, j_retval.fallidos)

C3_Witness ==
    /\ SyncBatchDone /\ Len(s_docs) = 2
    /\ s_docs[1].content = "bad_base64" /\ s_docs[2].content = "pdf"
    /\ s_resp.kind = "batch" /\ s_resp.exitosos = <<1>>
    /\ JobBatchDone /\ j_retval.kind = "batch" /\ j_retval.exitosos = <<1>>
    /\ Len(j_retval.fallidos) = 1

\* The error kind the failing step of an artifact calls for.
ExpectedErrorKind(doc) ==
    IF ~doc.has_field THEN "MISSING_CONTENT"
    ELSE IF doc.content \in {"empty", "bad_base64"} THEN "DECODE_ERROR"
    ELSE "PROCESSING_ERROR"

ErrorKindsByStep(docs, fail) ==
    \A k \in 1..Len(fail) :
        fail[k].error_type = ExpectedErrorKind(docs[fail[k].document_id + 1])

(***************************************************************************)
(* C4.  The recorded error kind of a failed artifact is that of the        *)
(* failing step: MISSING_CONTENT without a content field, DECODE_ERROR     *)
(* when the content fails to decode, PROCESSING_ERROR when the pipeline    *)
(* raises.                                                                 *)
(***************************************************************************)
C4_ErrorKindByFailingStep ==
    /\ (SyncBatchDone /\ s_resp.kind = "batch")
           => ErrorKindsByStep(s_docs, s_resp.fallidos)
    /\ (JobBatchDone /\ j_retval.kind = "batch")
           => ErrorKindsByStep(j_docs, j_retval.fallidos)

JobTransitions ==
    {<<"NONE", "PENDING">>, <<"PENDING", "PROCESSING">>,
     <<"PROCESSING", "PROCESSING">>, <<"PROCESSING", "SUCCESS">>,
     <<"PROCESSING", "FAILURE">>}
Terminal == {"SUCCESS", "FAILURE"}

(***************************************************************************)
(* C5.  The job's recorded state moves only Queued -> Processing ->        *)
(* {Completed, Failed}; a terminal state is written once, and after it     *)
(* neither the state nor the recorded result changes.                      *)
(***************************************************************************)
C5_JobStateMachine ==
    [][/\ (j_state' # j_state => <<j_state, j_state'>> \in JobTransitions)
       /\ (j_state \in Terminal =>
               j_state' = j_state /\ j_retval' = j_retval /\ j_meta' = j_meta)
       /\ j_done' <= 1
       /\ (j_state' \in Terminal <=> j_done' = 1)]_vars

C5_Witness ==
    /\ j_state = "SUCCESS" /\ j_done = 1 /\ j_pc = "done"
    /\ j_retval.kind = "batch"
    /\ last_poll # <<>> /\ last_poll[1].status = "completed"

(***************************************************************************)
(* C6.  From one status poll to the next the reported progress never       *)
(* decreases, and once a poll has reported a terminal status every later   *)
(* poll reports the same progress.                                         *)
(***************************************************************************)
C6_PollProgressMonotone ==
    [][(last_poll # <<>> /\ last_poll' # <<>>) =>
           /\ FracLeq(last_poll[1].progress, last_poll'[1].progress)
           /\ (last_poll[1].status \in {"completed", "failed"} =>
                   /\ FracEq(last_poll[1].progress, last_poll'[1].progress)
                   /\ last_poll'[1].status = last_poll[1].status)]_vars

C6_Witness ==
    /\ last_poll # <<>> /\ last_poll[1].status = "completed"
    /\ Len(j_docs) = 2 /\ j_pc = "done"

(***************************************************************************)
(* C7.  While the job is Processing a listing of N artifacts, the          *)
(* published progress is (artifacts finished) / N * 100.                   *)
(***************************************************************************)
C7_ProgressIsFinishedShare ==
    (j_state = "PROCESSING" /\ j_fetch = "listing") =>
        FracEq(j_meta[1], Frac(j_i * 100, Len(j_docs)))

(***************************************************************************)
(* C8.  A finished job with a webhook target has exactly one notification  *)
(* attempt, whose status is that of the terminal state; a finished job     *)
(* without one has none.                                                   *)
(***************************************************************************)
C8_OneNotificationPerJob ==
    j_pc = "done" =>
        IF j_webhook # "None"
        THEN /\ Len(sink) = 1
             /\ sink[1].status =
                    (IF j_state = "SUCCESS" THEN "completed" ELSE "failed")
        ELSE sink = <<>>

(***************************************************************************)
(* C9.  Whatever the webhook delivery did, the finished job carries what   *)
(* the run computed: Failed with the error if the run raised, Completed    *)
(* with the run's result otherwise.                                        *)
(***************************************************************************)
C9_WebhookFailureKeepsOutcome ==
    j_pc = "done" =>
        IF j_result.kind = "exception"
        THEN j_state = "FAILURE" /\ j_retval = j_result
        ELSE j_state = "SUCCESS" /\ j_retval = j_result

C9_Witness ==
    /\ j_pc = "done" /\ j_state = "SUCCESS" /\ j_retval.kind = "batch"
    /\ Len(sink) = 1 /\ sink[1].delivery = "rejected"

(***************************************************************************)
(* C10.  On an empty listing the sync request answers not-found without a  *)
(* result, the async job ends Failed, and neither writes the result cache. *)
(***************************************************************************)
C10_EmptyListingFails ==
    /\ (s_pc = "done" /\ s_fetch = "empty")
           => (s_resp = HttpError(404) /\ ~s_wrote)
    /\ (j_pc = "done" /\ j_fetch = "empty")
           => (j_state = "FAILURE" /\ ~j_wrote)

(***************************************************************************)
(* C11.  When the listing fetch of the job raises, the job ends Failed     *)
(* carrying that error, no artifact was processed and the job did not      *)
(* write the result cache.                                                 *)
(***************************************************************************)
C11_FetchErrorFailsJob ==
    (j_pc = "done" /\ j_fetch = "raised") =>
        /\ j_state = "FAILURE"
        /\ j_retval.kind = "exception" /\ j_retval.error \in FetchErrors
        /\ j_retval = j_result
        /\ j_fetched
        /\ j_i = 0 /\ j_ok = <<>> /\ j_fail = <<>>
        /\ ~j_wrote

C11_Witness ==
    /\ j_pc = "done" /\ j_fetch = "raised" /\ j_state = "FAILURE"
    /\ j_retval = ExceptionResult("timeout")
    /\ source # <<>>

\* The fields of a BatchResult.
BatchResultFields == {"exitosos", "fallidos", "metadata", "status"}

\* A step that is the arrival of a sync request.
SRequestStep == s_pc \in {"idle", "done"} /\ syncVars' # syncVars

(***************************************************************************)
(* C12.  A sync request with use_cache and without force_reprocess that    *)
(* finds a result in the result cache returns it as it is cached, makes no *)
(* live fetch, processes no artifact and writes no cache; with             *)
(* force_reprocess or without use_cache the result cache is not consulted. *)
(***************************************************************************)
C12_ResultCacheHit ==
    [][SRequestStep =>
          IF s_use_cache' /\ ~s_force' /\ result_cache # <<>>
          THEN /\ s_pc' = "done" /\ s_fetch' = "hit"
               /\ s_consulted'
               /\ \A f \in BatchResultFields :
                      s_resp'[f] = json_loads(result_cache[1].data)[f]
               /\ ~s_fetched' /\ s_i' = 0 /\ ~s_wrote'
               /\ envVars' = envVars
          ELSE /\ s_fetch' # "hit" /\ s_pc' = "fetch"
               /\ (s_consulted' <=> (s_use_cache' /\ ~s_force'))]_vars

C12_Witness ==
    /\ s_pc = "done" /\ s_fetch = "hit" /\ s_consulted /\ ~s_fetched
    /\ s_resp.kind = "batch" /\ s_resp.status = "partial"
    /\ j_wrote

(***************************************************************************)
(* C13.  When a batch run computes its result, the result cache holds that *)
(* result afterwards if its status is not failed, and is left as it was if *)
(* the status is failed; in the sync request and in the job alike.         *)
(***************************************************************************)
C13_PersistUnlessFailed ==
    [][/\ (s_pc = "finish" /\ s_pc' = "done") =>
              IF s_resp'.status # "failed"
              THEN get_processing_result(TRUE, result_cache').value
                       = <<s_resp'>>
              ELSE result_cache' = result_cache
       /\ (j_pc = "publish" /\ j_pc' = "notify") =>
              IF j_result'.status # "failed"
              THEN get_processing_result(TRUE, result_cache').value
                       = <<j_result'>>
              ELSE result_cache' = result_cache]_vars

C13_Witness ==
    /\ s_pc = "done" /\ s_fetch = "listing" /\ s_resp.kind = "batch"
    /\ s_resp.status = "partial" /\ s_wrote
    /\ get_processing_result(TRUE, result_cache).value = <<s_resp>>
    /\ j_pc = "fetch"

\* What a cache hit on the listing entry returns.
CachedListing(entry) ==
    CacheService_get_despacho_documents(TRUE, entry).value

(***************************************************************************)
(* C18.  A listing fetch with caching enabled that finds the listing entry *)
(* returns it with from_cache true and makes no live request; otherwise it *)
(* makes a live request and returns from_cache false, and a listing it     *)
(* fetched is then in the cache, where the next fetch finds it.  The       *)
(* `cached` flag of a result is the from_cache of its run.                 *)
(***************************************************************************)
C18_ListingCacheHitAndMiss ==
    [][/\ (s_pc = "fetch" /\ s_pc' # "fetch") =>
              IF s_use_cache /\ listing_cache # <<>>
              THEN /\ s_from_cache' /\ ~s_fetched'
                   /\ <<s_docs'>> = CachedListing(listing_cache)
                   /\ listing_cache' = listing_cache
              ELSE /\ ~s_from_cache' /\ s_fetched'
                   /\ (s_use_cache /\ s_fetch' = "listing") =>
                          CachedListing(listing_cache') = <<s_docs'>>
       /\ (j_pc = "fetch" /\ j_pc' # "fetch") =>
              IF listing_cache # <<>>
              THEN /\ j_from_cache' /\ ~j_fetched'
                   /\ <<j_docs'>> = CachedListing(listing_cache)
                   /\ listing_cache' = listing_cache
              ELSE /\ ~j_from_cache' /\ j_fetched'
                   /\ (j_fetch' = "listing") =>
                          CachedListing(listing_cache') = <<j_docs'>>
       /\ (s_pc' = "done" /\ s_fetch' = "listing") =>
              s_resp'.metadata.cached = s_from_cache'
       /\ (j_pc' = "done" /\ j_fetch' = "listing") =>
              j_retval'.metadata.cached = j_from_cache']_vars

C18_Witness ==
    /\ s_pc = "done" /\ s_fetch = "listing" /\ s_use_cache /\ s_fetched
    /\ s_resp.kind = "batch" /\ ~s_resp.metadata.cached
    /\ j_pc = "done" /\ j_fetch = "listing" /\ j_from_cache /\ ~j_fetched
    /\ j_docs = s_docs /\ j_retval.metadata.cached

\* The get that reads what a set wrote.
GetOf(op) ==
    IF op = "set_despacho_documents" THEN "get_despacho_documents"
    ELSE IF op = "set_processing_result" THEN "get_processing_result"
    ELSE "-"

(***************************************************************************)
(* C14.  A set answered by the store and followed at once by a get of the  *)
(* same key returns a value equal to the one set, and a get of a key whose *)
(* entry has expired is a miss; for listing entries and result entries.    *)
(***************************************************************************)
C14_CacheRoundTrip ==
    [][/\ (/\ c_last.up /\ c_last'.up
           /\ c_last'.op = GetOf(c_last.op)
           /\ c_last'.key = c_last.key) => c_last'.ret = c_last.value
       /\ (/\ c_last'.op \in {"get_despacho_documents",
                              "get_processing_result"}
           /\ c_last' # c_last
           /\ store[c_last'.key] = <<>>) => c_last'.ret = <<>>]_vars

(***************************************************************************)
(* C15.  As first stated: get_ttl is positive while the listing entry is   *)
(* in the store, 0 when it is not (expired, invalidated, never set), and   *)
(* never negative.                                                         *)
(***************************************************************************)
C15_TtlPositiveWhileLive ==
    (c_last.op = "get_ttl" /\ c_last.up) =>
        /\ c_last.ret[1] >= 0
        /\ (store[c_last.key] = <<>> => c_last.ret[1] = 0)
        /\ (store[c_last.key] # <<>> => c_last.ret[1] > 0)

(***************************************************************************)
(* C15, amended.  get_ttl is never negative, is 0 when the listing entry   *)
(* is not in the store (expired, invalidated, never set), and is positive  *)
(* while the entry has half a second or more to live; in its last half     *)
(* second Redis replies 0 and so does get_ttl.                             *)
(***************************************************************************)
C15_TtlNeverNegative ==
    (c_last.op = "get_ttl" /\ c_last.up) =>
        /\ c_last.ret[1] >= 0
        /\ (store[c_last.key] = <<>> => c_last.ret[1] = 0)
        /\ (store[c_last.key] # <<>> =>
               IF store[c_last.key][1].age = "live"
               THEN c_last.ret[1] > 0
               ELSE c_last.ret[1] = 0)

C15_Witness ==
    /\ c_last.op = "get_ttl" /\ c_last.up
    /\ store[c_last.key] # <<>> /\ store[c_last.key][1].age = "ending"
    /\ c_last.ret = <<0>>

\* The keys CacheService uses for a batch id.
KeysOf(despacho_id) ==
    {despacho_key(despacho_id)}
        \cup {result_key(despacho_id, d) : d \in DocIds \cup {<<>>}}

(***************************************************************************)
(* C16.  After invalidate_despacho(batch_id), answered by the store, the   *)
(* listing entry, the batch-level result entry and every per-document      *)
(* result entry of batch_id are absent.                                    *)
(***************************************************************************)
C16_InvalidateRemovesAll ==
    (c_last.op = "invalidate_despacho" /\ c_last.up) =>
        \A k \in KeysOf(c_last.key) : store[k] = <<>>

\* The result a run over docs computes when no cached result is used.
MissResult(docs, from_cache) ==
    LET r == procesar_loop(docs, 0, <<>>, <<>>) IN
    SyncResult(docs, r.ok, r.fail, from_cache)

(***************************************************************************)
(* C17.  A CacheService call the store does not answer never raises: a get *)
(* is a miss, get_ttl is 0, a set or an invalidate changes nothing; and a  *)
(* sync run that met such a call ends as it would on a cache miss: the     *)
(* listing is fetched live and the response is the result computed from    *)
(* it, an error only when the live fetch failed.                           *)
(***************************************************************************)
C17_CacheIsBestEffort ==
    [][/\ ~c_last'.raised
       /\ (c_last' # c_last /\ ~c_last'.up) =>
              /\ envVars' = envVars
              /\ (c_last'.op = "get_ttl" => c_last'.ret = <<0>>)
       /\ (s_pc = "finish" /\ s_down' # s_down) =>
              result_cache' = result_cache
       /\ (s_pc = "fetch" /\ "get_despacho_documents" \in s_down') =>
              /\ s_fetched' /\ ~s_from_cache'
              /\ (s_fetch' = "listing" => s_docs' = source)
       /\ (s_pc = "fetch" /\ "set_despacho_documents" \in s_down') =>
              /\ listing_cache' = listing_cache
              /\ s_fetch' = "listing" /\ s_docs' = source
       /\ (s_pc' = "done" /\ s_down' # {}) =>
              /\ ("get_processing_result" \in s_down' => s_fetch' # "hit")
              /\ (s_resp' = HttpError(500) =>
                      s_fetch' = "raised" /\ s_fetched')
              /\ (s_fetch' = "listing" =>
                      s_resp' = MissResult(s_docs', s_from_cache'))]_vars

C17_Witness ==
    /\ s_pc = "done" /\ s_fetch = "listing"
    /\ s_down = {"get_processing_result", "get_despacho_documents",
                 "set_despacho_documents", "set_processing_result"}
    /\ s_resp.kind = "batch" /\ s_resp.status = "partial"
    /\ listing_cache = <<>> /\ result_cache = <<>>

\* The failures the claims call transient.
TransientStatuses == {429, 500, 502, 503, 504}
Transient(a) ==
    a.kind # "response" \/ a.status \in TransientStatuses

(***************************************************************************)
(* C19.  A listing fetch whose attempts keep failing transiently is        *)
(* retried, never makes more than 1 + sgd_max_retries attempts, and after  *)
(* the last of them has ended by raising to its caller.                    *)
(***************************************************************************)
C19_RetriesAreBounded ==
    /\ f_attempts <= 1 + sgd_max_retries
    /\ (f_attempts > 0 /\ Transient(f_last)) =>
           IF f_attempts < 1 + sgd_max_retries
           THEN f_pc = "request"
           ELSE f_pc = "done" /\ f_ret.raised
                   /\ f_ret.error = fetch_error(f_last)

C19_Witness ==
    /\ f_pc = "done" /\ f_attempts = 1 + sgd_max_retries
    /\ f_last = [kind |-> "response", status |-> 503]
    /\ f_ret.raised /\ f_ret.error = "retry_error"
    /\ source # <<>>

(***************************************************************************)
(* C20.  A listing fetch answered with 404, or with any other error status *)
(* outside 429/500/502/503/504, ends at that attempt: it raises at once,   *)
(* a not-found error for 404, and the listing cache is not written.        *)
(***************************************************************************)
C20_PermanentStatusIsTerminal ==
    [][(/\ f_pc = "request" /\ f_attempts' = f_attempts + 1
        /\ ~Transient(f_last') /\ f_last'.status # 200) =>
           /\ f_pc' = "done" /\ f_ret'.raised
           /\ f_ret'.error = (IF f_last'.status = 404 THEN "http404"
                              ELSE "http_error")
           /\ listing_cache' = listing_cache /\ ~f_wrote']_vars

C20_Witness ==
    /\ f_pc = "done" /\ f_attempts = 1 /\ f_use_cache
    /\ f_last = [kind |-> "response", status |-> 404]
    /\ f_ret.raised /\ f_ret.error = "http404"
    /\ source # <<>> /\ listing_cache = <<>>

\* The latest entry of a list.
Latest(seq) == seq[Len(seq)]

\* The type the claims call the default, and the labels they call known.
DefaultType == "invoice"
KnownLabels == {"invoice", "transport", "packlist"}
KnownLabel(a) == a.kind = "label" /\ a.label \in KnownLabels

(***************************************************************************)
(* C21.  A call of classify_document never raises and returns a member of  *)
(* {invoice, transport, packlist}: a known label gives its own type; an    *)
(* unknown label, an absent label, no document and an exception all give   *)
(* the same default type.                                                  *)
(***************************************************************************)
C21_ClassifyNeverRaises ==
    [][p_calls'.classify = p_calls.classify + 1 =>
          /\ p_pc' # "raised"
          /\ Len(p_cls') = Len(p_cls) + 1
          /\ Latest(p_cls').document_type \in DocumentType
          /\ Latest(p_cls').document_type =
                 (IF KnownLabel(p_last') THEN p_last'.label
                  ELSE DefaultType)]_vars

C21_Witness ==
    /\ Len(p_cls) >= 2
    /\ p_last.kind = "exception"
    /\ Latest(p_cls).document_type = DefaultType
    /\ p_cls[1].document_type = "packlist"

(***************************************************************************)
(* C22.  In the ProcessedDocument the confidence of a page classified by   *)
(* the default path (unmapped label, absent label, capability error)       *)
(* differs from the confidence of a page the capability classified with a  *)
(* known label.                                                            *)
(***************************************************************************)
C22_DefaultConfidenceDiffers ==
    p_pc = "done" =>
        \A i, j \in 1..Len(p_ret.classification) :
            (p_paths[i] = "default" /\ p_paths[j] = "mapped") =>
                p_ret.classification[i].confidence
                    # p_ret.classification[j].confidence

\* The profile the claims give each type.
ProfileOf(t) == IF t = "transport" THEN "transport_01" ELSE "inovice_01"

(***************************************************************************)
(* C23.  A call of extract_data never raises; when the capability raised   *)
(* it returns the empty field map; and every DocumentType selects exactly  *)
(* one extraction profile: transport the transport profile, invoice and    *)
(* packlist the shared invoice profile.                                    *)
(***************************************************************************)
C23_ExtractNeverRaises ==
    [][p_calls'.extract = p_calls.extract + 1 =>
          /\ p_pc' # "raised"
          /\ Len(p_ext') = Len(p_ext) + 1
          /\ p_last'.kind = "exception" =>
                 Latest(p_ext').extracted_data = {}
          /\ Len(p_models') = Len(p_models) + 1
          /\ Latest(p_models') = ProfileOf(Latest(p_ext').document_type)
          /\ \A t \in DocumentType : model_name(t) = ProfileOf(t)]_vars

C23_Witness ==
    /\ p_ext # <<>> /\ p_last.kind = "exception"
    /\ Latest(p_ext).document_type = "packlist"
    /\ Latest(p_ext).extracted_data = {}
    /\ Latest(p_models) = "inovice_01"

(***************************************************************************)
(* C24.  process_document raises only when separate_pages fails: on an     *)
(* artifact that segments it never raises and it goes on until it has      *)
(* returned a ProcessedDocument, whatever classification and extraction    *)
(* answer.                                                                 *)
(***************************************************************************)
C24_OnlySegmentationRaises ==
    /\ p_pc = "raised" => ~p_pdf.valid
    /\ (p_pc \notin {"off", "raised", "done"}) => ENABLED DocNext
    /\ p_pc = "done" => p_pdf.valid /\ p_ret = ProcessedDocument(p_cls, p_ext)

C24_Witness ==
    /\ p_pc = "done" /\ p_pdf.n >= 2
    /\ \A i \in 1..Len(p_paths) : p_paths[i] = "default"
    /\ p_last.kind = "exception"
    /\ \A k \in 1..Len(p_ext) : p_ext[k].extracted_data = {}
    /\ p_ret.extraction # <<>>

(***************************************************************************)
(* C25.  For an artifact of n pages process_document returns n page        *)
(* classifications numbered 1..n in page order and one extraction record   *)
(* per group, in group order, with the type of its group; for n = 0 both   *)
(* lists are empty and no classification, merge or extraction call was     *)
(* made.                                                                   *)
(***************************************************************************)
C25_OnePerPageOnePerGroup ==
    p_pc = "done" =>
        /\ Len(p_ret.classification) = p_pdf.n
        /\ \A i \in 1..p_pdf.n : p_ret.classification[i].page_number = i
        /\ Len(p_ret.extraction) = Len(grouped)
        /\ \A k \in 1..Len(grouped) :
              /\ p_ret.extraction[k].document_type = grouped[k].document_type
              /\ \A q \in 1..Len(grouped[k].pages) :
                    p_ret.classification[grouped[k].pages[q]].document_type
                        = p_ret.extraction[k].document_type
        /\ p_calls.classify = p_pdf.n
        /\ p_calls.merge = Len(grouped) /\ p_calls.extract = Len(grouped)
        /\ p_pdf.n = 0 =>
              /\ p_ret.classification = <<>> /\ p_ret.extraction = <<>>
              /\ p_calls = [classify |-> 0, merge |-> 0, extract |-> 0]

C25_Witness ==
    /\ p_pc = "done" /\ p_pdf.n >= 3
    /\ Len(p_ret.extraction) = 2
    /\ p_ret.extraction[1].document_type = "transport"
    /\ p_ret.classification[p_pdf.n].page_number = p_pdf.n

\* The artifacts of a list of document ids come in listing order.
InListingOrder(ids) ==
    \A a, b \in 1..Len(ids) : a < b => ids[a] < ids[b]
FailedIds(fail) == [k \in 1..Len(fail) |-> fail[k].document_id]
ListsInOrder(ok, fail) ==
    InListingOrder(ok) /\ InListingOrder(FailedIds(fail))

(***************************************************************************)
(* C26.  The success list and the failure list of a batch run, sync or     *)
(* async, each keep the order of the listing: of two artifacts in the same *)
(* list the earlier one of the listing comes first.                        *)
(***************************************************************************)
C26_ListsKeepListingOrder ==
    /\ ListsInOrder(s_ok, s_fail)
    /\ ListsInOrder(j_ok, j_fail)
    /\ (s_pc = "done" /\ s_resp.kind = "batch") =>
           ListsInOrder(s_resp.exitosos, s_resp.fallidos)
    /\ (j_state = "SUCCESS" /\ j_retval.kind = "batch") =>
           ListsInOrder(j_retval.exitosos, j_retval.fallidos)

C26_Witness ==
    /\ s_pc = "done" /\ s_resp.kind = "batch" /\ s_fetched
    /\ s_resp.exitosos = <<0, 1>>
    /\ j_state = "SUCCESS" /\ j_retval.kind = "batch"
    /\ Len(j_retval.exitosos) = 2

(***************************************************************************)
(* C27.  A job that was submitted and has not started is reported as       *)
(* Queued, not as Processing: neither the answer of the submit endpoint    *)
(* nor a status poll of the pending job says "processing".                 *)
(***************************************************************************)
C27_QueuedIsReported ==
    [][/\ (j_state = "NONE" /\ j_state' = "PENDING") =>
              AsyncTaskResponse(j_webhook').status # "processing"
       /\ (j_state = "PENDING" /\ j_state' = "PENDING"
               /\ last_poll' # last_poll) =>
              last_poll'[1].status # "processing"]_vars

\* The step that ends the job Completed.
JobCompletes == j_state # "SUCCESS" /\ j_state' = "SUCCESS"

\* The step in which the job writes the result cache.
JobWrites == ~j_wrote /\ j_wrote'

(***************************************************************************)
(* C28, as first stated.  Whenever the job ends Completed, it has written  *)
(* the result cache before, and the result it carries is the one it wrote. *)
(***************************************************************************)
C28_CompletedResultIsStored ==
    [][/\ JobWrites =>
              /\ j_state' \notin {"SUCCESS", "FAILURE"}
              /\ get_processing_result(TRUE, result_cache').value
                     = <<j_result'>>
       /\ JobCompletes => j_wrote /\ j_retval' = j_result]_vars

(***************************************************************************)
(* C28, amended.  Whenever the job ends Completed with a BatchResult whose *)
(* status is not failed, it has written the result cache before, while it  *)
(* was not yet terminal, and the result it carries is the one it wrote.    *)
(***************************************************************************)
C28_CompletedResultIsStoredUnlessFailed ==
    [][/\ JobWrites =>
              /\ j_state' \notin {"SUCCESS", "FAILURE"}
              /\ get_processing_result(TRUE, result_cache').value
                     = <<j_result'>>
       /\ (JobCompletes /\ j_result.status # "failed") =>
              j_wrote /\ j_retval' = j_result]_vars

C28_Witness ==
    /\ j_state = "SUCCESS" /\ j_wrote /\ j_retval.kind = "batch"
    /\ j_retval.status = "partial"
    /\ get_processing_result(TRUE, result_cache).value = <<j_retval>>
    /\ s_pc = "idle"

(***************************************************************************)
(* C29.  A job that has started (Processing) eventually reaches a terminal *)
(* state, Completed or Failed.                                             *)
(***************************************************************************)
C29_StartedJobTerminates ==
    (j_state = "PROCESSING") ~> (j_state \in {"SUCCESS", "FAILURE"})

C29_Witness ==
    /\ j_pc = "done" /\ j_state = "FAILURE" /\ j_done = 1
    /\ j_fetch # "listing"

\* A content string whose estimated decoded size is over the maximum.
Oversized(c) == (c.len * 3) \div 4 > 50 * 1024 * 1024

(***************************************************************************)
(* C30.  On content whose estimated decoded size exceeds the configured    *)
(* maximum decode_document never calls b64decode and never returns bytes:  *)
(* it ends by raising the size error.                                      *)
(***************************************************************************)
C30_OversizedRejectedBeforeDecoding ==
    Oversized(d_content) =>
        /\ \A k \in 1..Len(d_steps) : d_steps[k] # "b64decode"
        /\ d_pc \in {"start", "size", "done"}
        /\ d_pc = "done" => d_ret.raised /\ d_ret.error = "too_large"

C30_Witness ==
    /\ d_pc = "done" /\ d_content.len = 69905068
    /\ d_content.valid /\ d_content.pdf
    /\ d_ret.raised /\ d_ret.error = "too_large"
    /\ d_steps = <<"estimate_document_size">>

\* The sync request is between its arrival and its response.
SyncRunning == s_pc \notin {"idle", "done"}

\* The job is between its start and its terminal state.
JobRunning == j_state = "PROCESSING"

(***************************************************************************)
(* C31.  No two executions that run at the same time write the same cache  *)
(* key: when the sync request writes the result entry (or the listing      *)
(* entry) of the batch, no job that is still running has written it, and   *)
(* the other way round.                                                    *)
(***************************************************************************)
C31_OneWriterPerKey ==
    [][/\ (SyncRunning /\ s_wrote') => ~(JobRunning /\ j_wrote)
       /\ (JobRunning /\ JobWrites) => ~(SyncRunning /\ s_wrote)
       /\ (SyncRunning /\ listing_cache' # listing_cache) =>
              ~(JobRunning /\ j_fetched /\ j_docs # <<>>)
       /\ (JobRunning /\ listing_cache' # listing_cache) =>
              ~(SyncRunning /\ s_fetched /\ s_use_cache /\ s_docs # <<>>)]_vars

(***************************************************************************)
(* C34.  A job that went through every artifact of a non-empty listing     *)
(* ends Completed carrying its BatchResult, whatever the status of the     *)
(* result: when every artifact failed the job is still Completed, it wrote *)
(* nothing to the cache, and with a webhook the one notification says      *)
(* completed.  The job is Failed only when an exception left the run.      *)
(***************************************************************************)
C34_AllFailedIsStillCompleted ==
    /\ (j_pc = "done" /\ j_fetch = "listing" /\ j_result.kind = "batch") =>
           /\ j_state = "SUCCESS"
           /\ j_retval = AsyncResult(j_docs, j_ok, j_fail, j_from_cache)
           /\ j_retval.status = "failed" =>
                  /\ j_ok = <<>>
                  /\ ~j_wrote
                  /\ j_webhook # "None" =>
                         /\ Len(sink) = 1
                         /\ sink[1].status = "completed"
    /\ j_state = "FAILURE" => j_retval.kind = "exception"

C34_Witness ==
    /\ j_pc = "done" /\ j_fetch = "listing" /\ j_state = "SUCCESS"
    /\ Len(j_docs) = 2 /\ j_retval.status = "failed"
    /\ j_webhook # "None" /\ ~j_wrote
    /\ sink = <<[status |-> "completed", delivery |-> "delivered"]>>

(***************************************************************************)
(* C40.  Over the same non-empty listing the sync request and the job      *)
(* compute the same successes, the same failures with the same error       *)
(* kinds, the same counts and the same status.                             *)
(***************************************************************************)
C40_SyncAndAsyncAgree ==
    (/\ s_pc = "done" /\ s_fetch = "listing" /\ s_resp.kind = "batch"
     /\ j_pc = "done" /\ j_fetch = "listing" /\ j_retval.kind = "batch") =>
        /\ s_resp.exitosos = j_retval.exitosos
        /\ s_resp.fallidos = j_retval.fallidos
        /\ s_resp.metadata.total_documentos
               = j_retval.metadata.total_documentos
        /\ s_resp.metadata.procesados = j_retval.metadata.procesados
        /\ s_resp.metadata.fallidos = j_retval.metadata.fallidos
        /\ s_resp.status = j_retval.status

C40_Witness ==
    /\ s_pc = "done" /\ s_fetch = "listing" /\ s_resp.kind = "batch"
    /\ j_pc = "done" /\ j_fetch = "listing" /\ j_retval.kind = "batch"
    /\ s_resp.status = "partial"
    /\ \E k \in 1..Len(s_resp.fallidos) :
           s_resp.fallidos[k].error_type = "DECODE_ERROR"

\* The step in which the sync request's call of get_despacho_documents ends.
SFetchStep == s_pc = "fetch" /\ s_pc' # "fetch"

(***************************************************************************)
(* C38.  get_despacho_documents called with use_cache = false makes no     *)
(* call to the listing cache, whether the store answers or not: the        *)
(* listing entry is the same after the call as before it, and from_cache   *)
(* is false.                                                               *)
(***************************************************************************)
C38_NoCacheUseWhenNotAsked ==
    [][(SFetchStep /\ ~s_use_cache) =>
          /\ listing_cache' = listing_cache
          /\ ~s_from_cache'
          /\ s_down' = s_down
          /\ s_fetched']_vars

C38_Witness ==
    /\ s_pc = "loop" /\ ~s_use_cache /\ s_fetched /\ ~s_from_cache
    /\ listing_cache # <<>> /\ s_docs = source
    /\ s_down = {}

\* The step in which a live fetch ends, and the first step of the next call.
LiveFetchEnds == f_pc = "request" /\ f_pc' = "done"
NextCall == f_pc = "done" /\ f_pc' # "done"

(***************************************************************************)
(* C39.  A live fetch that returns an empty listing, and one that ends on  *)
(* a failure (an error status, or retries exhausted), leave the listing    *)
(* entry as it was; the next call with use_cache after such a fetch that   *)
(* had itself missed the cache makes a live request again.                 *)
(***************************************************************************)
C39_EmptyOrFailedNotCached ==
    [][/\ (LiveFetchEnds /\ (source = <<>> \/ f_last'.kind # "response"
                                \/ f_last'.status # 200)) =>
              /\ listing_cache' = listing_cache
              /\ ~f_wrote'
              /\ f_ret'.raised \/ f_ret'.documents = <<>>
       /\ (NextCall /\ f_attempts > 0 /\ f_use_cache /\ f_use_cache'
               /\ (f_ret.raised \/ f_ret.documents = <<>>)) =>
              f_pc' = "request"]_vars

C39_Witness ==
    /\ f_pc = "done" /\ f_use_cache /\ f_attempts = 1
    /\ f_last = [kind |-> "response", status |-> 200]
    /\ source = <<>> /\ listing_cache = <<>> /\ ~f_wrote
    /\ ~f_ret.raised /\ f_ret.documents = <<>> /\ ~f_ret.from_cache

\* A step that takes away an entry that still had time to live: a delete.
Deleted(k) ==
    /\ store[k] # <<>> /\ store[k][1].age = "live"
    /\ store'[k] = <<>>

(***************************************************************************)
(* C35.  invalidate_despacho(b) deletes entries of batch b only: no entry  *)
(* of another batch id b2 (its listing entry, its batch result entry, its  *)
(* per-document result entries) is deleted by it, also when b is a proper  *)
(* prefix of b2.                                                           *)
(***************************************************************************)
C35_InvalidateTouchesOneBatch ==
    [][c_last'.op = "invalidate_despacho" =>
          \A b2 \in BatchIds \ {c_last'.key} :
              \A k \in KeysOf(b2) : ~Deleted(k)]_vars

\* A step that is a CacheService call of the kind op (every step of the
\* store records its call, the passing of time included).
CallStep(op) == c_last'.op = op

\* What the reads of the listing namespace and of the result namespace
\* return on a store, for the batch and document ids of the model.
ListingReads(st) ==
    [b \in BatchIds |->
        [get |-> CacheService_get_despacho_documents(TRUE,
                                                     st[despacho_key(b)]),
         ttl |-> {get_ttl(TRUE, r) : r \in redis_ttl(st[despacho_key(b)])}]]
ResultReads(st) ==
    [b \in BatchIds |->
        [d \in DocIds \cup {<<>>} |->
            get_processing_result(TRUE, st[result_key(b, d)])]]

(***************************************************************************)
(* C36.  The listing namespace and the result namespace are disjoint: a    *)
(* set_processing_result call changes nothing of what                      *)
(* get_despacho_documents and get_ttl return for any batch, and a          *)
(* set_despacho_documents call changes nothing of what                     *)
(* get_processing_result returns for any batch and document.               *)
(***************************************************************************)
C36_NamespacesAreDisjoint ==
    [][/\ CallStep("set_processing_result") =>
              ListingReads(store') = ListingReads(store)
       /\ CallStep("set_despacho_documents") =>
              ResultReads(store') = ResultReads(store)]_vars

C36_Witness ==
    /\ c_last.op = "set_processing_result" /\ c_last.up
    /\ c_last.key = result_key(<<"4", "2">>, <<>>)
    /\ store[result_key(<<"4", "2">>, <<>>)] # <<>>
    /\ store[despacho_key(<<"4", "2">>)] # <<>>
    /\ store[despacho_key(<<"4", "2">>)][1].age = "ending"

(***************************************************************************)
(* C37.  A run of procesar_despacho with force_reprocess = true and        *)
(* use_cache = true works on a freshly fetched listing: the listing its    *)
(* loop processes, and so its BatchResult, is the one the document source  *)
(* holds when the run fetches, also after the source changed since an      *)
(* earlier run cached the listing.                                         *)
(***************************************************************************)
C37_ForceReprocessesCurrentListing ==
    [][(SFetchStep /\ s_force /\ s_use_cache /\ s_pc' = "loop") =>
          s_docs' = source]_vars

\* Both executions of the twice-delivered job have ended.
BothEnded ==
    /\ j_pc = "done"
    /\ parked # NoExecution /\ parked.pc = "done"

\* The notifications one ended execution sent: one, completed (204-205) or
\* failed (220-224), unless no sink was given or its listing was empty
\* (109-113 return before any webhook).
Sent(e) ==
    IF j_webhook # "None" /\ e.result.kind # "empty" THEN 1 ELSE 0

Delivered == {k \in DOMAIN sink : sink[k].delivery = "delivered"}

(***************************************************************************)
(* C32.  Under at-least-once dispatch each execution of the same job sends *)
(* its own notification, whatever the other execution sent: when both have *)
(* ended the sink was tried once per execution, so it received two         *)
(* notifications, one, or, when both deliveries failed, none; the number   *)
(* delivered is not bounded by one.                                        *)
(***************************************************************************)
C32_OneNotificationPerExecution ==
    BothEnded =>
        /\ Len(sink) = Sent(Execution) + Sent(parked)
        /\ Cardinality(Delivered) \in 0..2

C32_Witness ==
    /\ BothEnded
    /\ j_webhook = "url"
    /\ j_result.kind = "batch" /\ parked.result.kind = "batch"
    /\ Len(sink) = 2
    /\ Cardinality(Delivered) = 2
    /\ \A k \in DOMAIN sink : sink[k].status = "completed"

\* Both deliveries failed: the sink received nothing for the job.
C32_NoneDelivered ==
    /\ BothEnded
    /\ j_webhook = "url"
    /\ Len(sink) = 2
    /\ Delivered = {}

(***************************************************************************)
(* C33.  Under at-least-once dispatch the published state of a job never   *)
(* goes from Completed or Failed back to Processing, and the progress the  *)
(* job published never decreases, also when a second execution of the same *)
(* job id runs after or interleaved with the first.                        *)
(***************************************************************************)
C33_PublishedStateNeverGoesBack ==
    [][/\ j_state \in {"SUCCESS", "FAILURE"} => j_state' # "PROCESSING"
       /\ (j_meta # <<>> /\ j_meta' # <<>>) =>
              FracLeq(j_meta[1], j_meta'[1])]_vars

=============================================================================
